---- MODULE Spec2Model ----
(***************************************************************************)
(* Model of the rlbot python interface: the framed socket relay            *)
(* (rlbot/interface.py) and the agent loops built on it                    *)
(* (rlbot/managers/bot.py, hivemind.py, script.py), plus the bare relay    *)
(* loop SocketRelay.run as it is used by MatchManager (managers/match.py). *)
(*                                                                         *)
(* The inbound socket is the environment: the server appends frames, the   *)
(* relay reads them in FIFO order.  The content of a frame is not observed *)
(* by the program before it is read, so it is drawn when it is read.       *)
(* Every read frame gets a sequence number (hist.nRead) so that packets    *)
(* and messages can be compared by arrival order.                          *)
(*                                                                         *)
(* Four more specifications look at SocketRelay alone: SpecDispatch (the   *)
(* observer lists and the order of dispatch), SpecRelay (connect, the send *)
(* methods, disconnect), SpecThreads (run() in threads, disconnect,        *)
(* MatchManager.start_match) and SpecCodec (send_bytes and read_message on *)
(* bytes).  SpecLive is Spec with fair scheduling of the agent loop, for    *)
(* progress; SpecMatch is MatchManager.start_match with the read loop.     *)
(* SpecPolling is read_message in non-blocking calls.  Three               *)
(* specifications cover the supervisor's helpers: SpecShutdown             *)
(* (MatchManager.shut_down), SpecGateway (utils/gateway.py: the port scan  *)
(* and launch) and SpecFill (utils.fill_desired_game_state).  SpecRender   *)
(* is the Renderer (managers/rendering.py).                                *)
(* Each keeps the variables of the others at their initial value.          *)
(***************************************************************************)
EXTENDS Integers, Sequences, FiniteSets, TLC

\* ------------------------------------------------------------------------
\* Bounds of the model
\* ------------------------------------------------------------------------
MaxFrames == 4       \* frames (or stream failures) the server delivers on one connection
MaxPlayers == 2      \* largest number of players listed in a GamePacket
NumRawHandlers == 1  \* number of registered raw handlers
MaxHandlers == 3     \* handlers registered in the observer lists, all lists together
MaxSends == 2        \* frames the client writes through the send methods on one relay
MaxThreads == 2      \* background threads started on one relay
MaxBody == 2         \* bodies of every length up to this one are tried with every content
LongBody == 256      \* length of the one long body, the first with a non-zero high length byte
MaxCodecFrames == 2  \* frames written to the byte stream
MaxChunk == 2        \* a receive call hands over up to this many bytes, or all it can
MaxLiveFrames == 3   \* frames the server delivers in the runs checked for progress
MaxSleeps == 16      \* iterations of the wait loop of shut_down that are followed
MaxIndex == 2        \* largest key of the dicts given to fill_desired_game_state
MaxRenderers == 2    \* Renderer objects in one process
MaxRenderCalls == 4  \* calls of begin_rendering, draw and end_rendering, all renderers together

None == "None"

\* the value of _latest_packet when it is None (sequence numbers start at 1)
NoPacket == [seq |-> 0, players |-> 0]

AgentKinds == {"Bot", "Hivemind", "Script"}
Kinds == AgentKinds \cup {"MatchManager"}

\* The inbound message kinds of SocketDataType the dispatch distinguishes;
\* START_COMMAND stands for every kind that falls into `case _`.
MessageTypes ==
    {"NONE", "GAME_PACKET", "FIELD_INFO", "MATCH_CONFIGURATION",
     "MATCH_COMMUNICATION", "BALL_PREDICTION", "CONTROLLABLE_TEAM_INFO",
     "START_COMMAND"}

\* Lists of controllable indices a ControllableTeamInfo can carry (one or more)
ControllableLists == {<<0>>, <<1>>, <<0, 1>>}

Frame(t, v, p, c, l) ==
    [type |-> t, valid |-> v, players |-> p, controllables |-> c, listed |-> l]

\* The frames the server can send.  valid: the body decodes; players: number
\* of players in a GamePacket; controllables: indices of a
\* ControllableTeamInfo; listed: the MatchConfiguration's script list has an
\* entry with this agent's id.
Frames ==
         {Frame("GAME_PACKET", TRUE, p, <<>>, FALSE) : p \in 0..MaxPlayers}
    \cup {Frame("CONTROLLABLE_TEAM_INFO", TRUE, 0, c, FALSE) : c \in ControllableLists}
    \cup {Frame("MATCH_CONFIGURATION", TRUE, 0, <<>>, l) : l \in BOOLEAN}
    \cup {Frame(t, TRUE, 0, <<>>, FALSE) :
            t \in {"NONE", "FIELD_INFO", "MATCH_COMMUNICATION", "BALL_PREDICTION", "START_COMMAND"}}
    \cup {Frame(t, FALSE, 0, <<>>, FALSE) : t \in MessageTypes \ {"NONE"}}

\* placeholder for the message when the read delivers none
NoFrame == Frame("NONE", TRUE, 0, <<>>, FALSE)

\* kinds whose handler can call the user's initialize or handle_match_comm
CallbackTypes ==
    {"FIELD_INFO", "MATCH_CONFIGURATION", "CONTROLLABLE_TEAM_INFO", "MATCH_COMMUNICATION"}

\* What a read of the socket can meet: a whole frame ("FRAME"); a frame cut
\* short by the end of the stream ("TRUNCATED"); the end of the stream
\* ("EOF"); a transport error ("IOERROR"); a header whose type is not a
\* SocketDataType ("BADTYPE"); nothing, on a non-blocking socket ("EMPTY").
WireOutcomes == {"FRAME", "TRUNCATED", "EOF", "IOERROR", "BADTYPE", "EMPTY"}

\* ------------------------------------------------------------------------
\* State
\* ------------------------------------------------------------------------
VARIABLES
    kind,          \* which class drives the relay: Bot, Hivemind, Script or MatchManager
    rawHandlers,   \* len(SocketRelay.raw_handlers)
    queued,        \* items waiting in the socket's receive buffer: frames, or the
                   \* end / a failure of the stream
    sent,          \* items the server has delivered so far
    sock_blocking, \* blocking mode of the socket (socket.setblocking)
    pc,            \* position of run(): "connect" (about to connect), "poll" (about to
                   \* call handle_incoming_messages), "process" (about to call
                   \* _packet_processor), "done" (loop left), "crashed"
                   \* (_packet_processor raised out of the loop), "raised"
                   \* (handle_incoming_messages raised out of the loop), "refused"
                   \* (connect raised)
    running,       \* SocketRelay._running
    agent,         \* fields of the Bot / Hivemind / Script / MatchManager object
    outbox,        \* frames written to the socket, in order
    hist,          \* history: what was read, which callbacks were invoked
    disp,          \* the observer lists of class SocketRelay and the last dispatch
    relay,         \* one SocketRelay used through its own methods, and its threads
    codec,         \* the byte stream of one socket and the reader's position in it
    shut,          \* one call of MatchManager.shut_down and the server process
    gate,          \* one call of gateway.launch and the ports of the machine
    fill,          \* one call of fill_desired_game_state: its arguments and result
    rend           \* the Renderer objects of one process and the render groups they sent

loopVars == <<kind, rawHandlers, queued, sent, sock_blocking, pc, running,
              agent, outbox, hist>>

supVars == <<shut, gate, fill, rend>>

vars == <<kind, rawHandlers, queued, sent, sock_blocking, pc, running,
          agent, outbox, hist, disp, relay, codec, shut, gate, fill, rend>>


\* ------------------------------------------------------------------------
\* A "world" w is what a call chain reads and writes: the fields of the
\* agent object, the frames written so far, the history, the exception in
\* flight (exc) and the value returned by handle_incoming_message (ret).
\* ------------------------------------------------------------------------
World == [agent |-> agent, outbox |-> outbox, hist |-> hist, exc |-> "none", ret |-> None]

Raise(w, e) == [w EXCEPT !.exc = e]

\* SocketRelay.send_bytes as used by the agents: the relay is connected and
\* the body is small, so the frame is written.
send_bytes(w, frame) == [w EXCEPT !.outbox = Append(@, frame)]

send_init_complete(w) == send_bytes(w, [type |-> "INIT_COMPLETE", index |-> -1, seq |-> 0])

send_player_input(w, index, seq) ==
    send_bytes(w, [type |-> "PLAYER_INPUT", index |-> index, seq |-> seq])

\* The user's initialize(): it returns, or it raises (initRaises)
initialize(w, initRaises) ==
    LET c == [w EXCEPT !.hist.initCalls = @ + 1,
                       !.hist.lastCalls = Append(@, "initialize")]
    IN  IF initRaises
        THEN Raise(c, "Exception")
        ELSE [c EXCEPT !.hist.initReturns = @ + 1]

\* exit() in the except clause of _try_initialize raises SystemExit
exit(w) == Raise(w, "SystemExit")

\* Variants of Bot._try_initialize with a plausible slip each: the latch
\* _initialized_bot is not consulted; the player mapping is not awaited;
\* the except clause logs but does not exit.
Bot_try_initialize_NoLatch(w, initRaises) ==
    IF \/ ~w.agent.has_match_settings
       \/ ~w.agent.has_field_info
       \/ ~w.agent.has_player_mapping
    THEN w
    ELSE LET c == initialize(w, initRaises)
         IN  IF c.exc # "none"
             THEN exit(c)
             ELSE send_init_complete([c EXCEPT !.agent.initialized = TRUE])

Bot_try_initialize_NoMapping(w, initRaises) ==
    IF \/ w.agent.initialized
       \/ ~w.agent.has_match_settings
       \/ ~w.agent.has_field_info
    THEN w
    ELSE LET c == initialize(w, initRaises)
         IN  IF c.exc # "none"
             THEN exit(c)
             ELSE send_init_complete([c EXCEPT !.agent.initialized = TRUE])

Bot_try_initialize_NoExit(w, initRaises) ==
    IF \/ w.agent.initialized
       \/ ~w.agent.has_match_settings
       \/ ~w.agent.has_field_info
       \/ ~w.agent.has_player_mapping
    THEN w
    ELSE LET c == initialize(w, initRaises)
         IN  send_init_complete([c EXCEPT !.exc = "none", !.agent.initialized = TRUE])

Bot_try_initialize(w, initRaises) ==
    IF \/ w.agent.initialized
       \/ ~w.agent.has_match_settings
       \/ ~w.agent.has_field_info
       \/ ~w.agent.has_player_mapping
    THEN w
    ELSE LET c == initialize(w, initRaises)
         IN  IF c.exc # "none"
             THEN exit(c)
             ELSE send_init_complete([c EXCEPT !.agent.initialized = TRUE])

Hivemind_try_initialize(w, initRaises) ==
    IF \/ w.agent.initialized
       \/ ~w.agent.has_match_settings
       \/ ~w.agent.has_field_info
       \/ ~w.agent.has_player_mapping
    THEN w
    ELSE LET c == initialize(w, initRaises)
         IN  IF c.exc # "none"
             THEN exit(c)
             ELSE send_init_complete([c EXCEPT !.agent.initialized = TRUE])

Script_try_initialize(w, initRaises) ==
    IF \/ w.agent.initialized
       \/ ~w.agent.has_match_settings
       \/ ~w.agent.has_field_info
    THEN w
    ELSE LET c == initialize(w, initRaises)
         IN  IF c.exc # "none"
             THEN exit(c)
             ELSE send_init_complete([c EXCEPT !.agent.initialized = TRUE])

try_initialize(w, initRaises) ==
    CASE kind = "Bot"      -> Bot_try_initialize(w, initRaises)
      [] kind = "Hivemind" -> Hivemind_try_initialize(w, initRaises)
      [] kind = "Script"   -> Script_try_initialize(w, initRaises)

\* Bot._handle_match_config and Hivemind._handle_match_config
handle_match_config(w, msg, initRaises) ==
    try_initialize([w EXCEPT !.agent.has_match_settings = TRUE], initRaises)

\* Script._handle_match_config: the latch bit is set only when the script
\* finds its agent id in the script list.
Script_handle_match_config(w, msg, initRaises) ==
    try_initialize(
        IF msg.listed THEN [w EXCEPT !.agent.has_match_settings = TRUE] ELSE w,
        initRaises)

handle_field_info(w, msg, initRaises) ==
    try_initialize([w EXCEPT !.agent.has_field_info = TRUE], initRaises)

Bot_handle_controllable_team_info(w, msg, initRaises) ==
    try_initialize(
        [w EXCEPT !.agent.index = msg.controllables[1],
                  !.agent.has_player_mapping = TRUE],
        initRaises)

\* Hivemind._handle_controllable_team_info: append every controllable to
\* spawn_ids and indices (hist.lastTeam: the controllables of this message)
Hivemind_handle_controllable_team_info(w, msg, initRaises) ==
    try_initialize(
        [w EXCEPT !.agent.indices = @ \o msg.controllables,
                  !.agent.has_player_mapping = TRUE,
                  !.hist.lastTeam = msg.controllables],
        initRaises)

\* _handle_ball_prediction stores the prediction; the content of the
\* prediction slot is not part of the modelled state.
handle_ball_prediction(w, msg) == w

\* Variant of _handle_packet that keeps a pending packet instead of
\* replacing it
handle_packet_KeepOld(w, msg) ==
    IF w.agent.latest_packet # NoPacket
    THEN w
    ELSE [w EXCEPT !.agent.latest_packet = [seq |-> w.hist.nRead, players |-> msg.players]]

\* Bot/Hivemind/Script._handle_packet: store the packet, do not process it
handle_packet(w, msg) ==
    [w EXCEPT !.agent.latest_packet = [seq |-> w.hist.nRead, players |-> msg.players]]

\* MatchManager._packet_reporter
packet_reporter(w, msg) ==
    [w EXCEPT !.agent.latest_packet = [seq |-> w.hist.nRead, players |-> msg.players]]

\* Bot/Hivemind/Script._handle_match_communication: calls the user's
\* handle_match_comm, which returns or raises (commRaises).
handle_match_communication(w, msg, commRaises) ==
    LET c == [w EXCEPT !.hist.lastCalls = Append(@, "handle_match_comm")]
    IN  IF commRaises THEN Raise(c, "Exception") ELSE c


\* ------------------------------------------------------------------------
\* Packet processing (the user's per-packet callback)
\* ------------------------------------------------------------------------
\* Dicts a Hivemind's get_outputs can return, as the list of their keys
OutputLists == {<<>>, <<0>>, <<1>>, <<0, 1>>}

\* the user's get_output / get_outputs / handle_packet is invoked with packet
UserLogic(w, packet, userRaises) ==
    LET c == [w EXCEPT !.hist.lastUser = packet.seq]
    IN  IF userRaises
        THEN Raise([c EXCEPT !.hist.lastRaised = packet.seq], "Exception")
        ELSE c

\* history: _packet_processor is entered with packet
Entered(w, packet) == [w EXCEPT !.hist.lastProc = packet.seq]

\* Variants of Bot._packet_processor: get_output is not wrapped in
\* try/except; the player-count test is off by one.
Bot_packet_processor_NoCatch(w, packet, userRaises, outputs) ==
    LET e == Entered(w, packet)
    IN  IF packet.players <= e.agent.index
        THEN e
        ELSE LET u == UserLogic(e, packet, userRaises)
             IN  IF u.exc # "none"
                 THEN u
                 ELSE send_player_input(u, u.agent.index, packet.seq)

Bot_packet_processor_OffByOne(w, packet, userRaises, outputs) ==
    LET e == Entered(w, packet)
    IN  IF packet.players <= e.agent.index + 1
        THEN e
        ELSE LET u == UserLogic(e, packet, userRaises)
             IN  IF u.exc # "none"
                 THEN Raise(u, "none")
                 ELSE send_player_input(u, u.agent.index, packet.seq)

Bot_packet_processor(w, packet, userRaises, outputs) ==
    LET e == Entered(w, packet)
    IN  IF packet.players <= e.agent.index
        THEN e
        ELSE LET u == UserLogic(e, packet, userRaises)
             IN  IF u.exc # "none"
                 THEN Raise(u, "none")
                 ELSE send_player_input(u, u.agent.index, packet.seq)

RECURSIVE SendInputs(_, _, _)
SendInputs(w, outputs, seq) ==
    IF outputs = <<>>
    THEN w
    ELSE SendInputs(send_player_input(w, Head(outputs), seq), Tail(outputs), seq)

Hivemind_packet_processor(w, packet, userRaises, outputs) ==
    LET e == Entered(w, packet)
    IN  IF e.agent.indices = <<>>
        THEN Raise(e, "IndexError")
        ELSE IF packet.players <= e.agent.indices[Len(e.agent.indices)]
        THEN e
        ELSE LET u == UserLogic(e, packet, userRaises)
             IN  IF u.exc # "none"
                 THEN Raise(u, "none")
                 ELSE SendInputs(u, outputs, packet.seq)

Script_packet_processor(w, packet, userRaises, outputs) ==
    LET e == Entered(w, packet)
        u == UserLogic(e, packet, userRaises)
    IN  Raise(u, "none")

packet_processor(w, packet, userRaises, outputs) ==
    CASE kind = "Bot"      -> Bot_packet_processor(w, packet, userRaises, outputs)
      [] kind = "Hivemind" -> Hivemind_packet_processor(w, packet, userRaises, outputs)
      [] kind = "Script"   -> Script_packet_processor(w, packet, userRaises, outputs)


\* ------------------------------------------------------------------------
\* The relay: read one frame and dispatch it
\* ------------------------------------------------------------------------
\* The handler lists of the relay after the constructor of the driving class:
\* Bot and Hivemind register one handler for each of six kinds, Script for
\* five, MatchManager only a packet handler.
HasHandlers(t) ==
    CASE kind \in {"Bot", "Hivemind"} ->
             t \in {"GAME_PACKET", "FIELD_INFO", "MATCH_CONFIGURATION",
                    "MATCH_COMMUNICATION", "BALL_PREDICTION", "CONTROLLABLE_TEAM_INFO"}
      [] kind = "Script" ->
             t \in {"GAME_PACKET", "FIELD_INFO", "MATCH_CONFIGURATION",
                    "MATCH_COMMUNICATION", "BALL_PREDICTION"}
      [] kind = "MatchManager" -> t = "GAME_PACKET"

\* the name under which the call of a kind's handler is recorded
HandlerName(t) ==
    CASE t = "GAME_PACKET" -> "handle_packet"
      [] t = "FIELD_INFO" -> "handle_field_info"
      [] t = "MATCH_CONFIGURATION" -> "handle_match_config"
      [] t = "MATCH_COMMUNICATION" -> "handle_match_communication"
      [] t = "BALL_PREDICTION" -> "handle_ball_prediction"
      [] t = "CONTROLLABLE_TEAM_INFO" -> "handle_controllable_team_info"

TypedHandlerNames == {HandlerName(t) : t \in MessageTypes \ {"NONE", "START_COMMAND"}}

\* the registered handler for a decoded message of each kind
TypedHandler(w, msg, cbRaises) ==
    LET c == [w EXCEPT !.hist.lastCalls = Append(@, HandlerName(msg.type)),
                       !.hist.got = @ \cup ({msg.type} \cap CallbackTypes),
                       !.hist.lastRx = IF msg.type = "GAME_PACKET" THEN w.hist.nRead ELSE @,
                       !.hist.lastSuperseded =
                           IF msg.type = "GAME_PACKET" /\ w.agent.latest_packet # NoPacket
                           THEN w.agent.latest_packet.seq ELSE @]
    IN  CASE msg.type = "GAME_PACKET" ->
                 IF kind = "MatchManager" THEN packet_reporter(c, msg) ELSE handle_packet(c, msg)
          [] msg.type = "FIELD_INFO" -> handle_field_info(c, msg, cbRaises)
          [] msg.type = "MATCH_CONFIGURATION" ->
                 IF kind = "Script"
                 THEN Script_handle_match_config(c, msg, cbRaises)
                 ELSE handle_match_config(c, msg, cbRaises)
          [] msg.type = "MATCH_COMMUNICATION" -> handle_match_communication(c, msg, cbRaises)
          [] msg.type = "BALL_PREDICTION" -> handle_ball_prediction(c, msg)
          [] msg.type = "CONTROLLABLE_TEAM_INFO" ->
                 IF kind = "Bot"
                 THEN Bot_handle_controllable_team_info(c, msg, cbRaises)
                 ELSE Hivemind_handle_controllable_team_info(c, msg, cbRaises)

\* for raw_handler in self.raw_handlers: raw_handler(incoming_message)
\* rawRaise = 0: no raw handler raises; rawRaise = i: the i-th one raises.
CallRawHandlers(w, rawRaise) ==
    LET n == IF rawRaise = 0 THEN rawHandlers ELSE rawRaise
    IN  [w EXCEPT !.hist.lastCalls = @ \o [i \in 1..n |-> "raw"],
                  !.exc = IF rawRaise = 0 THEN "none" ELSE "Exception"]

\* Variant of handle_incoming_message that does not hand a MatchComm to its
\* handlers while it is read
handle_incoming_message_SkipComm(w, msg, rawRaise, cbRaises) ==
    LET r == CallRawHandlers(w, rawRaise)
    IN  IF r.exc # "none" THEN r
        ELSE IF msg.type = "NONE" THEN [r EXCEPT !.ret = "TERMINATED"]
        ELSE IF msg.type = "MATCH_COMMUNICATION" THEN [r EXCEPT !.ret = "MORE_MSGS_QUEUED"]
        ELSE LET d == IF HasHandlers(msg.type)
                      THEN IF msg.valid
                           THEN TypedHandler(r, msg, cbRaises)
                           ELSE Raise(r, "InvalidFlatbuffer")
                      ELSE r
             IN  IF d.exc # "none"
                 THEN d
                 ELSE [d EXCEPT !.ret = "MORE_MSGS_QUEUED", !.hist.nDispatched = @ + 1]

handle_incoming_message(w, msg, rawRaise, cbRaises) ==
    LET r == CallRawHandlers(w, rawRaise)
    IN  IF r.exc # "none" THEN r
        ELSE IF msg.type = "NONE" THEN [r EXCEPT !.ret = "TERMINATED"]
        ELSE LET d == IF HasHandlers(msg.type)
                      THEN IF msg.valid
                           THEN TypedHandler(r, msg, cbRaises)
                           ELSE Raise(r, "InvalidFlatbuffer")
                      ELSE r
             IN  IF d.exc # "none"
                 THEN d
                 ELSE [d EXCEPT !.ret = "MORE_MSGS_QUEUED", !.hist.nDispatched = @ + 1]

\* read_message: what the socket holds decides the outcome
read_message(w, wire) ==
    CASE wire = "EMPTY"     -> Raise(w, "BlockingIOError")
      [] wire = "EOF"       -> Raise(w, "EOFError")
      [] wire = "TRUNCATED" -> Raise(w, "EOFError")
      [] wire = "IOERROR"   -> Raise(w, "OSError")
      [] wire = "BADTYPE"   -> Raise(w, "ValueError")
      [] wire = "FRAME"     -> [w EXCEPT !.hist.nRead = @ + 1]

Result(w, res, caught) ==
    [w EXCEPT !.exc = "none", !.ret = res,
              !.hist.lastResult = res, !.hist.lastExc = caught]

\* Variants of handle_incoming_messages: a handler's exception is logged and
\* the call goes on to report MORE_MSGS_QUEUED; the outer except clause
\* does not catch EOFError.
handle_incoming_messages_Continue(w0, wire, msg, rawRaise, cbRaises) ==
    LET w == [w0 EXCEPT !.hist.lastCalls = <<>>,
                        !.hist.lastTyped = (wire = "FRAME" /\ HasHandlers(msg.type)),
                        !.hist.lastNone = (wire = "FRAME" /\ msg.type = "NONE")]
        r == read_message(w, wire)
    IN  IF r.exc = "BlockingIOError" THEN Result(r, "NO_INCOMING_MSGS", r.exc)
        ELSE IF r.exc # "none" THEN Result(r, "TERMINATED", r.exc)
        ELSE LET h == handle_incoming_message(r, msg, rawRaise, cbRaises)
             IN  IF h.exc = "none"
                 THEN Result(h, h.ret, "none")
                 ELSE IF h.exc = "Exception"
                 THEN Result([h EXCEPT !.hist.nDispatched = @ + 1], "MORE_MSGS_QUEUED", h.exc)
                 ELSE Result(h, "TERMINATED", h.exc)

handle_incoming_messages_EofEscapes(w0, wire, msg, rawRaise, cbRaises) ==
    LET w == [w0 EXCEPT !.hist.lastCalls = <<>>,
                        !.hist.lastTyped = (wire = "FRAME" /\ HasHandlers(msg.type)),
                        !.hist.lastNone = (wire = "FRAME" /\ msg.type = "NONE")]
        r == read_message(w, wire)
    IN  IF r.exc = "BlockingIOError" THEN Result(r, "NO_INCOMING_MSGS", r.exc)
        ELSE IF r.exc = "EOFError" THEN [r EXCEPT !.hist.lastExc = "EOFError"]
        ELSE IF r.exc # "none" THEN Result(r, "TERMINATED", r.exc)
        ELSE LET h == handle_incoming_message(r, msg, rawRaise, cbRaises)
             IN  IF h.exc = "none"
                 THEN Result(h, h.ret, "none")
                 ELSE Result(h, "TERMINATED", h.exc)

handle_incoming_messages(w0, wire, msg, rawRaise, cbRaises) ==
    LET w == [w0 EXCEPT !.hist.lastCalls = <<>>,
                        !.hist.lastTyped = (wire = "FRAME" /\ HasHandlers(msg.type)),
                        !.hist.lastNone = (wire = "FRAME" /\ msg.type = "NONE")]
        r == read_message(w, wire)
    IN  IF r.exc = "BlockingIOError" THEN Result(r, "NO_INCOMING_MSGS", r.exc)
        ELSE IF r.exc # "none" THEN Result(r, "TERMINATED", r.exc)
        ELSE LET h == handle_incoming_message(r, msg, rawRaise, cbRaises)
             IN  IF h.exc = "none"
                 THEN Result(h, h.ret, "none")
                 ELSE Result(h, "TERMINATED", h.exc)

\* What a read can meet, given the receive buffer and the blocking mode.  A
\* blocking read of an empty socket waits: no outcome.
Readable(blocking) ==
    IF queued > 0
    THEN {"FRAME", "TRUNCATED", "EOF", "IOERROR", "BADTYPE"}
    ELSE IF blocking THEN {} ELSE {"EMPTY"}


\* ------------------------------------------------------------------------
\* The observer lists.  They are attributes of the class SocketRelay, not
\* of its instances: `relay.raw_handlers.append(h)` appends, through any
\* instance, to the one list of the class.  A handler is recorded with the
\* list it is in, the instance through which it was registered (owner) and
\* its registration number (n).  Two of the six typed lists are modelled;
\* handle_incoming_message uses the other four in the same way.
\* ------------------------------------------------------------------------
\* two SocketRelay instances in one process, as when a Bot and a
\* MatchManager are constructed side by side
Relays == {1, 2}

TypedLists == {"packet_handlers", "match_comm_handlers"}

Lists == {"raw_handlers"} \cup TypedLists

\* the kinds of message the dispatch is exercised with; START_COMMAND stands
\* for the kinds without a list
DispatchTypes == {"NONE", "GAME_PACKET", "MATCH_COMMUNICATION", "START_COMMAND"}

\* ------------------------------------------------------------------------
\* One SocketRelay used through its own methods
\* ------------------------------------------------------------------------
MAX_SIZE_2_BYTES == 65535

\* The float of disconnect()'s timer.  A double is kept as sign and
\* magnitude, the magnitude counted in units of 2^-56 and held in three
\* limbs of 20 bits (h, m, l): every double between 2^-4 and 8 is a whole
\* number of such units.
Limb == 1048576

\* 5.0 = 5 * 2^56 units
D_5_0 == [neg |-> FALSE, h |-> 327680, m |-> 0, l |-> 0]

\* 0.1 = 0x1999999999999A units (the double nearest to one tenth)
D_0_1 == [neg |-> FALSE, h |-> 6553, m |-> 629145, l |-> 629146]

Threads == 1..MaxThreads

InitRelay ==
    [is_connected |-> FALSE, running |-> FALSE, sock |-> "fresh", wire |-> <<>>,
     main |-> "idle", th |-> [t \in Threads |-> "none"],
     timeout |-> D_5_0, polls |-> 0, disc |-> "none",
     exc |-> "none", nsent |-> 0, nconn |-> 0, initialized |-> FALSE,
     lastSend |-> [called |-> FALSE, conn |-> FALSE, big |-> FALSE,
                   exc |-> "none", wrote |-> FALSE, kept |-> TRUE],
     packet |-> "none", fresh |-> FALSE,
     lastStart |-> [called |-> FALSE, exc |-> "none", big |-> FALSE, first |-> FALSE],
     initBare |-> FALSE]

\* ------------------------------------------------------------------------
\* The byte stream: frames as send_bytes writes them and read_message
\* reads them.  A byte is a number in 0..255.
\* ------------------------------------------------------------------------
\* the values of SocketDataType
DataTypes == 0..15

\* byte values the short bodies are made of
Bytes == {0, 255}

\* bytearray(n)
Zeros(n) == [i \in 1..n |-> 0]

RECURSIVE SeqsOf(_, _)
SeqsOf(S, n) ==
    IF n = 0 THEN {<<>>}
    ELSE {Append(q, x) : q \in SeqsOf(S, n - 1), x \in S}

Bodies ==
    UNION {SeqsOf(Bytes, n) : n \in 0..MaxBody} \cup {[i \in 1..LongBody |-> i % 256]}

\* the frames a sender writes: any kind with any body first; what follows
\* it on the stream is one of two short frames
CodecFrames == [type : DataTypes, data : Bodies]

FollowFrames == {[type |-> 0, data |-> <<1>>], [type |-> 15, data |-> <<>>]}

InitCodec ==
    [wire |-> <<>>, sent |-> <<>>, nsend |-> 0,
     phase |-> "type", n |-> 2, pos |-> 0, buff |-> Zeros(2), type_int |-> 0,
     consumed |-> 0, bytewise |-> TRUE, nread |-> 0, dropped |-> 0,
     last |-> [type |-> -1, data |-> <<>>]]

InitDisp ==
    [lists |-> [l \in Lists |-> <<>>], nreg |-> 0,
     rx |-> 0, msg |-> None, raised |-> FALSE, calls |-> <<>>]

\* ------------------------------------------------------------------------
\* MatchManager.shut_down.  proc: self.rlbot_server_process is not None;
\* alive: a server process exists; force: use_force_if_necessary; sleeps:
\* the local counter; hits: the polls that found the process; terms, kills:
\* the values of sleeps at which terminate() and kill() were called in the
\* loop; pre: terminate() was called before the loop (BrokenPipeError).
\* ------------------------------------------------------------------------
InitShut ==
    [pc |-> "call", proc |-> FALSE, alive |-> FALSE, force |-> FALSE,
     sleeps |-> 0, hits |-> 0, terms |-> {}, kills |-> {}, pre |-> FALSE,
     exc |-> "none"]

\* ------------------------------------------------------------------------
\* gateway.launch and the machine it runs on.  exe: the server executable
\* is there and executable ("ok"), not found ("missing") or not executable
\* even after chmod ("noexec"); rl: the port in the RLBot_ControllerURL
\* argument of a running Rocket League, 0 when there is none; busy: the
\* sampled ports that cannot be bound on loopback; rest: no other port can
\* be bound; port: the port passed to the spawned server.
\* ------------------------------------------------------------------------
IDEAL_RLBOT_PORT == 23233

DEFAULT_RLBOT_PORT == 50000

RLBOT_SERVER_PORT == 23234

\* gateway.py imports this name from rlbot.interface, where the port
\* constant is called RLBOT_SERVER_PORT
RLBOT_SOCKETS_PORT == RLBOT_SERVER_PORT

\* for port_to_test in range(IDEAL_RLBOT_PORT, 65535)
RangeStop == 65535

ScanPorts == IDEAL_RLBOT_PORT..(RangeStop - 1)

\* the ports whose state is chosen one by one: the first four of the scan,
\* the fallback port, the last port of the scan and the last port there is
PortSamples ==
    {IDEAL_RLBOT_PORT, IDEAL_RLBOT_PORT + 1, IDEAL_RLBOT_PORT + 2, IDEAL_RLBOT_PORT + 3,
     DEFAULT_RLBOT_PORT, RangeStop - 1, RangeStop}

InitGate ==
    [pc |-> "launch", exe |-> "ok", rl |-> 0, busy |-> {}, rest |-> FALSE,
     port |-> 0, exc |-> "none", logged |-> FALSE]

\* ------------------------------------------------------------------------
\* fill_desired_game_state.  A dict is a function from its keys; a state is
\* a default-constructed one ("default") or another one ("set").
\* ------------------------------------------------------------------------
DesiredStates == {"default", "set"}

\* dict[int, state] with keys in 0..MaxIndex
Dicts == UNION {[D -> DesiredStates] : D \in SUBSET (0..MaxIndex)}

EmptyDict == [i \in {} |-> "default"]

InitFill ==
    [balls |-> EmptyDict, cars |-> EmptyDict, done |-> FALSE,
     ball_states |-> <<>>, car_states |-> <<>>]

\* ------------------------------------------------------------------------
\* Renderer.  _used_group_ids and _current_renders are class attributes that
\* are changed in place (add, append, clear), so there is one of each for
\* all Renderer objects; _group_id is assigned through self, so there is one
\* for each object.  A queued draw is [n, big]: n numbers the draw calls, big
\* says that its packed form alone is longer than MAX_SIZE_2_BYTES.
\* hash: the value of hash(str(group_id).encode()) % MAX_INT for each name;
\* connected: the relay's is_connected; groups: the RenderGroup frames
\* written; since[i]: history, the draws object i has queued since its
\* begin_rendering; last: history, the last call; rejected: history, the
\* calls that were refused with a logged error or warning.
\* ------------------------------------------------------------------------
\* MAX_INT = 2147483647 // 2
MAX_INT == 1073741823

\* _group_id is None
NoGroup == -1

Renderers == 1..MaxRenderers

GroupNames == {"default", "debug"}

\* values of the hash that are tried: the least, the greatest
HashSamples == {0, MAX_INT - 1}

InitRend ==
    [hash |-> [g \in GroupNames |-> 0], connected |-> TRUE,
     group_id |-> [i \in Renderers |-> NoGroup],
     current_renders |-> <<>>, used_group_ids |-> {},
     groups |-> <<>>, ncalls |-> 0, ndraws |-> 0,
     since |-> [i \in Renderers |-> <<>>],
     last |-> [op |-> "none", by |-> 0, exc |-> "none"], rejected |-> {}]

\* the supervisor's helpers and the renderers, constructed and left alone
SupIdle ==
    /\ shut = InitShut
    /\ gate = InitGate
    /\ fill = InitFill
    /\ rend = InitRend

\* ------------------------------------------------------------------------
\* Initial state: the object is constructed.  A Bot, Hivemind or Script is
\* about to be run (run() connects first); the relay of a MatchManager is
\* connected and SocketRelay.run has been entered.
\* ------------------------------------------------------------------------
InitAgent ==
    [initialized |-> FALSE, has_match_settings |-> FALSE,
     has_field_info |-> FALSE, has_player_mapping |-> FALSE,
     index |-> IF kind = "Script" THEN 0 ELSE -1, indices |-> <<>>,
     latest_packet |-> NoPacket]

InitHist ==
    [nRead |-> 0, nDispatched |-> 0,
     lastResult |-> None, lastExc |-> "none", lastCalls |-> <<>>,
     initCalls |-> 0, initReturns |-> 0,
     lastTyped |-> FALSE, got |-> {},
     lastRx |-> 0, lastSuperseded |-> 0, lastProc |-> 0, lastUser |-> 0, lastRaised |-> 0,
     lastNone |-> FALSE, nRetire |-> 0, lastTeam |-> <<>>]

Init ==
    /\ kind \in Kinds
    /\ rawHandlers = NumRawHandlers
    /\ queued = 0
    /\ sent = 0
    /\ sock_blocking = TRUE
    /\ pc = (IF kind \in AgentKinds THEN "connect" ELSE "poll")
    /\ running = (kind = "MatchManager")
    /\ agent = InitAgent
    /\ outbox = <<>>
    /\ hist = InitHist
    /\ disp = InitDisp
    /\ relay = InitRelay
    /\ codec = InitCodec
    /\ SupIdle

\* ------------------------------------------------------------------------
\* The server: it sends frames, or ends or breaks the stream, as long as
\* the client's loop is alive (when the loop has ended the relay is
\* discarded).  What an item is shows when it is read.
\* ------------------------------------------------------------------------
LoopAlive == pc \in {"poll", "process"}

ServerSend ==
    /\ LoopAlive
    /\ sent < MaxFrames
    /\ sent' = sent + 1
    /\ queued' = queued + 1
    /\ UNCHANGED <<kind, rawHandlers, sock_blocking, pc, running, agent, outbox, hist>>
    /\ UNCHANGED <<disp, relay, codec, supVars>>

\* ------------------------------------------------------------------------
\* The loops
\* ------------------------------------------------------------------------
\* positions at which Bot/Hivemind/Script.run has left its try block
RunEnded == {"done", "crashed", "raised", "refused"}

\* the user's retire()
retire(h) == [h EXCEPT !.nRetire = @ + 1]

\* Variant of the finally clause of run() that is skipped when the try
\* block was left by an exception
run_finally_OnlyOnReturn(h, p) ==
    IF kind \in AgentKinds /\ p = "done" THEN retire(h) ELSE h

\* Bot/Hivemind/Script.run, the finally clause: entered when the try block
\* (connect, then _run) is left at position p, by return or by exception
run_finally(h, p) ==
    IF kind \in AgentKinds /\ p \in RunEnded THEN retire(h) ELSE h

\* Variants of the match in _run: a pending packet is processed after any
\* result that does not end the loop; a pending packet is left where it is
\* when the queue is found empty.
RunMatch_Eager(w) ==
    /\ pc' = CASE w.exc # "none" -> "raised"
               [] w.ret = "TERMINATED" -> "done"
               [] w.agent.latest_packet # NoPacket -> "process"
               [] OTHER -> "poll"
    /\ UNCHANGED running

RunMatch_KeepPending(w) ==
    /\ pc' = CASE w.exc # "none" -> "raised"
               [] w.ret = "TERMINATED" -> "done"
               [] OTHER -> "poll"
    /\ UNCHANGED running

\* Bot/Hivemind/Script._run: the match on the result of handle_incoming_messages
RunMatch(w) ==
    /\ pc' = CASE w.exc # "none" -> "raised"
               [] w.ret = "TERMINATED" -> "done"
               [] w.ret = "NO_INCOMING_MSGS" /\ w.agent.latest_packet # NoPacket -> "process"
               [] OTHER -> "poll"
    /\ UNCHANGED running

\* SocketRelay.run (foreground body), one iteration of the while loop and,
\* when the loop ends, the final self._running = False
RelayLoop(w) ==
    LET r == (w.ret # "TERMINATED")
    IN  /\ running' = IF w.exc # "none" THEN running ELSE r
        /\ pc' = CASE w.exc # "none" -> "raised"
                   [] ~r -> "done"
                   [] OTHER -> "poll"

\* One call of handle_incoming_messages(blocking) from a loop, and what the
\* loop does with the result
Poll(blocking) ==
    \E wire \in Readable(blocking) :
    \E msg \in (IF wire = "FRAME" THEN Frames ELSE {NoFrame}) :
    \E rawRaise \in (IF wire = "FRAME" THEN 0..rawHandlers ELSE {0}) :
    \E cbRaises \in (IF wire = "FRAME" /\ rawRaise = 0 /\ msg.valid /\ msg.type \in CallbackTypes
                      THEN BOOLEAN ELSE {FALSE}) :
        LET w == handle_incoming_messages(World, wire, msg, rawRaise, cbRaises)
        IN  /\ sock_blocking' = blocking
            /\ queued' = IF queued > 0 THEN queued - 1 ELSE 0
            /\ agent' = w.agent
            /\ outbox' = w.outbox
            /\ IF kind = "MatchManager" THEN RelayLoop(w) ELSE RunMatch(w)
            /\ hist' = run_finally(w.hist, pc')
            /\ UNCHANGED <<kind, rawHandlers, sent>>
            /\ UNCHANGED <<disp, relay, codec, supVars>>

\* Bot/Hivemind/Script.run up to the call of _run: SocketRelay.connect
\* succeeds and writes ConnectionSettings, or it raises (refused or timed
\* out) and run() goes to its finally clause
AgentConnect ==
    /\ kind \in AgentKinds
    /\ pc = "connect"
    /\ \E ok \in BOOLEAN :
        /\ pc' = IF ok THEN "poll" ELSE "refused"
        /\ outbox' = IF ok
                     THEN Append(outbox, [type |-> "CONNECTION_SETTINGS", index |-> -1, seq |-> 0])
                     ELSE outbox
        /\ hist' = run_finally(hist, pc')
    /\ UNCHANGED <<kind, rawHandlers, queued, sent, sock_blocking, running, agent>>
    /\ UNCHANGED <<disp, relay, codec, supVars>>

\* Bot/Hivemind/Script._run, the top of the loop
AgentPoll ==
    /\ kind \in AgentKinds
    /\ pc = "poll"
    /\ Poll(agent.latest_packet = NoPacket)

\* Bot/Hivemind/Script._run, case NO_INCOMING_MSGS with a pending packet
AgentProcess ==
    /\ kind \in AgentKinds
    /\ pc = "process"
    /\ \E userRaises \in BOOLEAN :
       \E outputs \in (IF kind = "Hivemind" /\ ~userRaises THEN OutputLists ELSE {<<>>}) :
        LET w == packet_processor(World, agent.latest_packet, userRaises, outputs)
        IN  IF w.exc # "none"
            THEN /\ pc' = "crashed"
                 /\ agent' = w.agent
                 /\ outbox' = w.outbox
                 /\ hist' = run_finally(w.hist, pc')
            ELSE /\ pc' = "poll"
                 /\ agent' = [w.agent EXCEPT !.latest_packet = NoPacket]
                 /\ outbox' = w.outbox
                 /\ hist' = w.hist
    /\ UNCHANGED <<kind, rawHandlers, queued, sent, sock_blocking, running>>
    /\ UNCHANGED <<disp, relay, codec, supVars>>

RelayRun ==
    /\ kind = "MatchManager"
    /\ pc = "poll"
    /\ running
    /\ Poll(TRUE)

Next ==
    \/ ServerSend
    \/ AgentConnect
    \/ AgentPoll
    \/ AgentProcess
    \/ RelayRun

Spec == Init /\ [][Next]_vars

\* The loop of _run is executed by a thread that keeps being scheduled: a
\* call of handle_incoming_messages that can return does return, and a
\* pending call of _packet_processor is made.  The server is under no
\* obligation to send.
LiveServerSend == sent < MaxLiveFrames /\ ServerSend

LiveNext ==
    \/ LiveServerSend
    \/ AgentConnect
    \/ AgentPoll
    \/ AgentProcess
    \/ RelayRun

SpecLive == Init /\ [][LiveNext]_vars /\ WF_vars(AgentPoll) /\ WF_vars(AgentProcess)

TypeOK ==
    /\ kind \in Kinds
    /\ queued \in 0..MaxFrames
    /\ sent \in 0..MaxFrames
    /\ pc \in {"connect", "poll", "process"} \cup RunEnded
    /\ hist.nRead \in 0..MaxFrames
    /\ Readable(TRUE) \subseteq WireOutcomes


\* the agent of the loop model, constructed and left alone
LoopIdle ==
    /\ kind = "Bot"
    /\ rawHandlers = 0
    /\ queued = 0
    /\ sent = 0
    /\ sock_blocking = TRUE
    /\ pc = "connect"
    /\ running = FALSE
    /\ agent = InitAgent
    /\ outbox = <<>>
    /\ hist = InitHist

\* ------------------------------------------------------------------------
\* Registration and dispatch over the observer lists
\* ------------------------------------------------------------------------
\* the typed list handle_incoming_message reads for a message of type t
ListOf(t) ==
    CASE t = "GAME_PACKET" -> "packet_handlers"
      [] t = "MATCH_COMMUNICATION" -> "match_comm_handlers"
      [] OTHER -> None

\* Variant of handle_incoming_message that serves the typed list before the
\* raw handlers
dispatch_order_TypedFirst(ls, t) ==
    IF t = "NONE" THEN ls["raw_handlers"]
    ELSE IF ListOf(t) = None THEN ls["raw_handlers"]
    ELSE ls[ListOf(t)] \o ls["raw_handlers"]

\* handle_incoming_message: the handlers it invokes for a message of type
\* t, in order, when none of them raises
dispatch_order(ls, t) ==
    IF t = "NONE" THEN ls["raw_handlers"]
    ELSE IF ListOf(t) = None THEN ls["raw_handlers"]
    ELSE ls["raw_handlers"] \o ls[ListOf(t)]

\* <instance r>.<list l>.append(handler), as in Bot.__init__,
\* MatchManager.__init__ or user code
Register(r, l) ==
    /\ disp.nreg < MaxHandlers
    /\ disp' = [disp EXCEPT !.nreg = @ + 1,
                            !.lists[l] = Append(@, [list |-> l, owner |-> r, n |-> disp.nreg + 1])]
    /\ UNCHANGED <<loopVars, relay, codec, supVars>>

\* Instance r reads a message of type t and hands it to
\* handle_incoming_message; raiseAt = 0: no handler raises, raiseAt = k:
\* the k-th invoked handler raises, which ends the dispatch.
Dispatch(r, t, raiseAt) ==
    LET order == dispatch_order(disp.lists, t)
    IN  /\ raiseAt <= Len(order)
        /\ disp' = [disp EXCEPT !.rx = r, !.msg = t, !.raised = (raiseAt # 0),
                                !.calls = IF raiseAt = 0 THEN order
                                          ELSE SubSeq(order, 1, raiseAt)]
        /\ UNCHANGED <<loopVars, relay, codec, supVars>>

DispatchInit ==
    /\ LoopIdle
    /\ disp = InitDisp
    /\ relay = InitRelay
    /\ codec = InitCodec
    /\ SupIdle

DispatchNext ==
    \/ \E r \in Relays, l \in Lists : Register(r, l)
    \/ \E r \in Relays, t \in DispatchTypes, raiseAt \in 0..MaxHandlers : Dispatch(r, t, raiseAt)

SpecDispatch == DispatchInit /\ [][DispatchNext]_vars

\* ------------------------------------------------------------------------
\* send_bytes and read_message on bytes
\* ------------------------------------------------------------------------
\* Variant of _int_to_bytes with byteorder="little"
int_to_bytes_Little(val) == <<val % 256, (val \div 256) % 256>>

\* val.to_bytes(2, byteorder="big"), val < 2^16
int_to_bytes(val) == <<(val \div 256) % 256, val % 256>>

\* int.from_bytes(b, "big") of two bytes
int_from_bytes(b) == b[1] * 256 + b[2]

\* the bytes send_bytes hands to sendall for a body of at most 65535 bytes
message_bytes(data, data_type) ==
    int_to_bytes(data_type) \o int_to_bytes(Len(data)) \o data

\* SocketDataType(type_int): the member, or -1 for the ValueError
SocketDataType(type_int) == IF type_int \in DataTypes THEN type_int ELSE -1

\* the sender writes a frame
CodecSend(f) ==
    /\ codec.nsend < MaxCodecFrames
    /\ codec.nsend > 0 => f \in FollowFrames
    /\ codec' = [codec EXCEPT !.wire = @ \o message_bytes(f.data, f.type),
                              !.sent = Append(@, f),
                              !.nsend = @ + 1]
    /\ UNCHANGED <<loopVars, disp, relay, supVars>>

\* read_message returns SocketMessage(SocketDataType(type_int), data); the
\* next call starts at "type"
ReturnMessage(c, data) ==
    [c EXCEPT !.last = [type |-> SocketDataType(c.type_int), data |-> data],
              !.nread = @ + 1, !.sent = Tail(@),
              !.phase = "type", !.n = 2, !.pos = 0, !.buff = Zeros(2), !.type_int = 0]

\* _read_exact has filled its buffer: read_message goes on
ReadExactDone(c) ==
    CASE c.phase = "type" ->
             [c EXCEPT !.type_int = int_from_bytes(c.buff),
                       !.phase = "size", !.n = 2, !.pos = 0, !.buff = Zeros(2)]
      [] c.phase = "size" ->
             LET size == int_from_bytes(c.buff)
             IN  IF size = 0
                 THEN ReturnMessage(c, <<>>)
                 ELSE [c EXCEPT !.phase = "body", !.n = size, !.pos = 0, !.buff = Zeros(size)]
      [] c.phase = "body" -> ReturnMessage(c, c.buff)

\* Variant of the receive call in _read_exact that writes at the start of
\* the buffer: recv_into(view) instead of recv_into(view[pos:])
recv_into_NoOffset(c, cr) ==
    [c EXCEPT !.buff = [i \in 1..c.n |-> IF i <= cr THEN c.wire[i] ELSE c.buff[i]],
              !.wire = SubSeq(c.wire, cr + 1, Len(c.wire)),
              !.pos = @ + cr]

\* cr = self.socket.recv_into(view[pos:]); pos += cr
recv_into(c, cr) ==
    [c EXCEPT !.buff = [i \in 1..c.n |-> IF c.pos < i /\ i <= c.pos + cr
                                        THEN c.wire[i - c.pos] ELSE c.buff[i]],
              !.wire = SubSeq(c.wire, cr + 1, Len(c.wire)),
              !.pos = @ + cr]

\* the most one receive call can hand over: what the buffer still lacks,
\* or what the stream holds
RecvLimit(c) == IF c.n - c.pos < Len(c.wire) THEN c.n - c.pos ELSE Len(c.wire)

\* One receive call of a blocking read_message: the transport hands over
\* cr bytes, at least one and at most RecvLimit.
Recv(cr) ==
    /\ cr >= 1
    /\ cr <= RecvLimit(codec)
    /\ LET first == codec.phase = "type" /\ codec.pos = 0
           r == recv_into(codec, cr)
           g == [r EXCEPT !.consumed = IF first THEN cr ELSE @ + cr,
                          !.bytewise = (first \/ @) /\ cr = 1]
       IN  codec' = IF g.pos < g.n THEN g ELSE ReadExactDone(g)
    /\ UNCHANGED <<loopVars, disp, relay, supVars>>

CodecInit ==
    /\ LoopIdle
    /\ disp = InitDisp
    /\ relay = InitRelay
    /\ codec = InitCodec
    /\ SupIdle

CodecNext ==
    \/ \E f \in CodecFrames \cup FollowFrames : CodecSend(f)
    \/ \E cr \in (1..MaxChunk) \cup {RecvLimit(codec)} : Recv(cr)

SpecCodec == CodecInit /\ [][CodecNext]_vars

\* A receive call of a non-blocking read_message (setblocking(False)) at a
\* moment when the transport has no byte at hand: recv_into raises
\* BlockingIOError, which leaves _read_exact and read_message and is caught in
\* handle_incoming_messages (NO_INCOMING_MSGS).  buff, pos and type_int are
\* locals of the calls that were left: the next call starts at "type".
\* dropped counts the bytes the left call had taken from the stream.
RecvWouldBlock ==
    /\ LET fresh == codec.phase = "type" /\ codec.pos = 0
       IN  codec' = [codec EXCEPT
                !.dropped = IF fresh THEN @ ELSE @ + codec.consumed,
                !.phase = "type", !.n = 2, !.pos = 0, !.buff = Zeros(2), !.type_int = 0]
    /\ codec' # codec
    /\ UNCHANGED <<loopVars, disp, relay, supVars>>

\* the frames with a short body
ShortFrames == {f \in CodecFrames : Len(f.data) <= MaxBody}

\* A receive call that hands over bytes.  A read that waits for a body
\* longer than any the server writes (a length taken from bytes that are
\* not a header) is not followed further.
PollingRecv(cr) ==
    /\ codec.n <= LongBody
    /\ Recv(cr)

\* read_message in non-blocking calls: every receive call hands over some
\* bytes or finds none at hand
PollingNext ==
    \/ \E f \in ShortFrames \cup FollowFrames : CodecSend(f)
    \/ \E cr \in (1..MaxChunk) \cup {RecvLimit(codec)} : PollingRecv(cr)
    \/ RecvWouldBlock

SpecPolling == CodecInit /\ [][PollingNext]_vars

\* ------------------------------------------------------------------------
\* Float arithmetic of disconnect(): timeout = 5.0, timeout -= 0.1,
\* timeout > 0, timeout <= 0
\* ------------------------------------------------------------------------
MagLess(a, b) ==
    \/ a.h < b.h
    \/ a.h = b.h /\ a.m < b.m
    \/ a.h = b.h /\ a.m = b.m /\ a.l < b.l

\* a - b on magnitudes, a >= b, exact
MagSub(a, b) ==
    LET l0 == a.l - b.l
        bl == IF l0 < 0 THEN 1 ELSE 0
        m0 == a.m - b.m - bl
        bm == IF m0 < 0 THEN 1 ELSE 0
    IN  [h |-> a.h - b.h - bm, m |-> m0 + bm * Limb, l |-> l0 + bl * Limb]

\* the spacing of the doubles around a magnitude, in units: a double has 53
\* significant bits, the limbs m and l hold 40
Ulp(x) ==
    IF x.h >= 262144 THEN 64
    ELSE IF x.h >= 131072 THEN 32
    ELSE IF x.h >= 65536 THEN 16
    ELSE IF x.h >= 32768 THEN 8
    ELSE IF x.h >= 16384 THEN 4
    ELSE IF x.h >= 8192 THEN 2
    ELSE 1

\* round to nearest double, ties to even
MagRound(x) ==
    LET u == Ulp(x)
        rem == x.l % u
        q == x.l \div u
        up == (2 * rem > u) \/ (2 * rem = u /\ q % 2 = 1)
        l0 == x.l - rem + (IF up THEN u ELSE 0)
        cl == IF l0 >= Limb THEN 1 ELSE 0
        m0 == x.m + cl
        cm == IF m0 >= Limb THEN 1 ELSE 0
    IN  [h |-> x.h + cm, m |-> m0 - cm * Limb, l |-> l0 - cl * Limb]

\* a - b for doubles a >= 0 and b > 0
float_sub(a, b) ==
    IF MagLess(a, b)
    THEN LET d == MagRound(MagSub(b, a)) IN [neg |-> TRUE, h |-> d.h, m |-> d.m, l |-> d.l]
    ELSE LET d == MagRound(MagSub(a, b)) IN [neg |-> FALSE, h |-> d.h, m |-> d.m, l |-> d.l]

\* x > 0
float_pos(x) == ~x.neg /\ (x.h # 0 \/ x.m # 0 \/ x.l # 0)

\* ------------------------------------------------------------------------
\* SocketRelay: send_bytes, the send methods, connect, disconnect.  A call
\* takes the relay record r and gives the record after the call; r.exc is
\* the exception the call raised.  A written frame is recorded with its
\* type and what its body is.
\* ------------------------------------------------------------------------
\* Variants of send_bytes: without the assertion; with a size check that
\* lets one byte too many through
SocketRelay_send_bytes_NoAssert(r, type, size, body) ==
    IF size > MAX_SIZE_2_BYTES THEN r
    ELSE [r EXCEPT !.wire = Append(@, [type |-> type, body |-> body])]

SocketRelay_send_bytes_OffByOne(r, type, size, body) ==
    IF ~r.is_connected THEN [r EXCEPT !.exc = "AssertionError"]
    ELSE IF size > MAX_SIZE_2_BYTES + 1 THEN r
    ELSE [r EXCEPT !.wire = Append(@, [type |-> type, body |-> body])]

SocketRelay_send_bytes(r, type, size, body) ==
    IF ~r.is_connected THEN [r EXCEPT !.exc = "AssertionError"]
    ELSE IF size > MAX_SIZE_2_BYTES THEN r
    ELSE [r EXCEPT !.wire = Append(@, [type |-> type, body |-> body])]

\* the send methods, by the type of frame they send: send_init_complete,
\* send_set_loadout, send_match_comm, send_player_input, send_game_state,
\* send_render_group, remove_render_group, stop_match, start_match (a path
\* or a MatchConfiguration)
SendMethods ==
    {"INIT_COMPLETE", "SET_LOADOUT", "MATCH_COMMUNICATION", "PLAYER_INPUT",
     "DESIRED_GAME_STATE", "RENDER_GROUP", "REMOVE_RENDER_GROUP", "STOP_COMMAND",
     "START_COMMAND", "MATCH_CONFIGURATION"}

\* lengths of a packed body that are tried
BodySizes == {0, 1, MAX_SIZE_2_BYTES, MAX_SIZE_2_BYTES + 1}

\* connect raises: the relay is connected already (assertion), the socket
\* is connected already (OSError from socket.connect), or the server
\* refuses until the timeout (ok = FALSE)
ConnectRaises(r, ok) == r.is_connected \/ r.sock = "connected" \/ ~ok

\* SocketRelay.connect; onConnectSends: an on_connect handler sends a
\* MatchComm through the relay
SocketRelay_connect(r, ok, onConnectSends) ==
    IF ConnectRaises(r, ok)
    THEN [r EXCEPT !.exc = IF r.is_connected THEN "AssertionError"
                           ELSE IF r.sock = "connected" THEN "OSError"
                           ELSE "ConnectionRefusedError"]
    ELSE LET c == [r EXCEPT !.is_connected = TRUE, !.sock = "connected", !.nconn = @ + 1]
             h == IF onConnectSends
                  THEN SocketRelay_send_bytes(c, "MATCH_COMMUNICATION", 1, "packed")
                  ELSE c
         IN  SocketRelay_send_bytes(h, "CONNECTION_SETTINGS", 1, "packed")

\* the caller's thread calls connect
Connect ==
    /\ relay.main = "idle"
    /\ \E ok \in BOOLEAN, onConnectSends \in BOOLEAN :
        relay' = [SocketRelay_connect(relay, ok, onConnectSends) EXCEPT !.exc = "none"]
    /\ UNCHANGED <<loopVars, disp, codec, supVars>>

\* the caller's thread calls a send method with a body of the given size
Send(type, size) ==
    /\ relay.main = "idle"
    /\ relay.nsent < MaxSends
    /\ LET res == SocketRelay_send_bytes(relay, type, size, "packed")
           wrote == res.wire # relay.wire
       IN  relay' = [res EXCEPT !.exc = "none",
                                !.nsent = IF wrote THEN @ + 1 ELSE @,
                                !.lastSend = [called |-> TRUE,
                                              conn |-> relay.is_connected,
                                              big |-> size > MAX_SIZE_2_BYTES,
                                              exc |-> res.exc,
                                              wrote |-> wrote,
                                              kept |-> [res EXCEPT !.exc = "none"] = relay]]
    /\ UNCHANGED <<loopVars, disp, codec, supVars>>

\* disconnect(), up to the wait loop (the client calls it once, on a
\* connected relay)
Disconnect ==
    /\ relay.main = "idle"
    /\ relay.disc = "none"
    /\ relay.is_connected
    /\ relay' = [SocketRelay_send_bytes(relay, "NONE", 1, "0x01") EXCEPT
                    !.timeout = D_5_0, !.polls = 0, !.disc = "active", !.main = "disc_loop"]
    /\ UNCHANGED <<loopVars, disp, codec, supVars>>

\* disconnect(), the wait loop: one test of the condition and, when it
\* holds, one sleep of 0.1 s
DisconnectPoll ==
    /\ relay.main = "disc_loop"
    /\ relay' = IF relay.running /\ float_pos(relay.timeout)
                THEN [relay EXCEPT !.polls = @ + 1, !.timeout = float_sub(@, D_0_1)]
                ELSE [relay EXCEPT !.main = "disc_force"]
    /\ UNCHANGED <<loopVars, disp, codec, supVars>>

\* disconnect(), `if timeout <= 0`
DisconnectForce ==
    /\ relay.main = "disc_force"
    /\ relay' = [relay EXCEPT !.running = IF float_pos(relay.timeout) THEN @ ELSE FALSE,
                              !.main = "disc_assert"]
    /\ UNCHANGED <<loopVars, disp, codec, supVars>>

\* disconnect(), the assertion and the last assignment
DisconnectFinish ==
    /\ relay.main = "disc_assert"
    /\ relay' = IF relay.running
                THEN [relay EXCEPT !.disc = "asserted", !.main = "idle", !.timeout = D_5_0]
                ELSE [relay EXCEPT !.disc = "returned", !.main = "idle", !.timeout = D_5_0,
                                   !.is_connected = FALSE]
    /\ UNCHANGED <<loopVars, disp, codec, supVars>>

RelayInit ==
    /\ LoopIdle
    /\ disp = InitDisp
    /\ relay = InitRelay
    /\ codec = InitCodec
    /\ SupIdle

\* a client that connects, sends and disconnects, without a read loop
RelayNext ==
    \/ Connect
    \/ \E type \in SendMethods, size \in BodySizes : Send(type, size)
    \/ Disconnect
    \/ DisconnectPoll
    \/ DisconnectForce
    \/ DisconnectFinish

SpecRelay == RelayInit /\ [][RelayNext]_vars

\* ------------------------------------------------------------------------
\* SocketRelay.run and the threads that execute it.  Executor 0 is the
\* caller's thread (position relay.main), executors 1..MaxThreads are the
\* threads started by run(background_thread=True) (positions relay.th).
\* Positions inside run(): "entry" (thread started, run() not yet
\* entered), "set" (both assertions passed), "loop" (at the while test),
\* "read" (inside handle_incoming_messages(blocking=True)), "exit" (loop
\* left, before the last assignment); then "ended", or "failed" when an
\* assertion failed in the thread.
\* ------------------------------------------------------------------------
Executors == 0..MaxThreads

PcOf(r, e) == IF e = 0 THEN r.main ELSE r.th[e]

SetPc(r, e, p) == IF e = 0 THEN [r EXCEPT !.main = p] ELSE [r EXCEPT !.th[e] = p]

\* the assertions at the top of run()
RunAsserts(r) == r.is_connected /\ ~r.running

FreeThreads(r) == {t \in Threads : r.th[t] = "none"}

\* Thread(target=self.run).start()
StartThread(r) ==
    LET t == CHOOSE x \in FreeThreads(r) : \A y \in FreeThreads(r) : x <= y
    IN  [r EXCEPT !.th[t] = "entry"]

\* run(background_thread=True) in the caller's thread
SocketRelay_run_background(r) ==
    IF RunAsserts(r) THEN StartThread(r) ELSE [r EXCEPT !.exc = "AssertionError"]

RunBackground ==
    /\ relay.main = "idle"
    /\ FreeThreads(relay) # {}
    /\ relay' = [SocketRelay_run_background(relay) EXCEPT !.exc = "none"]
    /\ UNCHANGED <<loopVars, disp, codec, supVars>>

\* run() in the caller's thread: the assertions
RunForeground ==
    /\ relay.main = "idle"
    /\ RunAsserts(relay)
    /\ relay' = [relay EXCEPT !.main = "set"]
    /\ UNCHANGED <<loopVars, disp, codec, supVars>>

\* a started thread enters run(): the assertions
ThreadEnter(t) ==
    /\ relay.th[t] = "entry"
    /\ relay' = [relay EXCEPT !.th[t] = IF RunAsserts(relay) THEN "set" ELSE "failed"]
    /\ UNCHANGED <<loopVars, disp, codec, supVars>>

\* self._running = True
SetRunning(e) ==
    /\ PcOf(relay, e) = "set"
    /\ relay' = SetPc([relay EXCEPT !.running = TRUE], e, "loop")
    /\ UNCHANGED <<loopVars, disp, codec, supVars>>

\* while self._running and self.is_connected
LoopTest(e) ==
    /\ PcOf(relay, e) = "loop"
    /\ relay' = SetPc(relay, e, IF relay.running /\ relay.is_connected THEN "read" ELSE "exit")
    /\ UNCHANGED <<loopVars, disp, codec, supVars>>

\* what a frame read by the loop does to MatchManager.packet: a GamePacket
\* whose match phase is Inactive or Ended ("idle"), a GamePacket in any
\* other phase ("active"), or a frame of another kind ("keep")
PacketEffects == {"keep", "idle", "active"}

\* MatchManager._packet_reporter (fresh: history, the packet was reported
\* after the last call of start_match had sent its frames)
MatchManager_packet_reporter(r, eff) ==
    IF eff = "keep" THEN r ELSE [r EXCEPT !.packet = eff, !.fresh = TRUE]

\* handle_incoming_messages(blocking=True) returns, when the server has
\* sent something, and its result is assigned to _running; eff is what the
\* dispatch of the frame does to MatchManager.packet
ReadFrame(e, eff) ==
    /\ PcOf(relay, e) = "read"
    /\ \E res \in (IF eff = "keep" THEN {"MORE_MSGS_QUEUED", "TERMINATED"}
                                    ELSE {"MORE_MSGS_QUEUED"}) :
        relay' = SetPc([MatchManager_packet_reporter(relay, eff) EXCEPT
                            !.running = (res # "TERMINATED")], e, "loop")
    /\ UNCHANGED <<loopVars, disp, codec, supVars>>

\* a read of a frame that is not a GamePacket
ReadReturn(e) == ReadFrame(e, "keep")

\* self._running = False after the loop
LoopExit(e) ==
    /\ PcOf(relay, e) = "exit"
    /\ relay' = SetPc([relay EXCEPT !.running = FALSE], e, IF e = 0 THEN "idle" ELSE "ended")
    /\ UNCHANGED <<loopVars, disp, codec, supVars>>

\* the frames start_match can send for a config: StartCommand for a path,
\* MatchConfiguration for a configuration object
StartFrames == {"START_COMMAND", "MATCH_CONFIGURATION"}

\* Variant of start_match that sends InitComplete on every call
MatchManager_start_match_NoLatch(r, ok, type, size) ==
    LET c == IF r.is_connected THEN r ELSE SocketRelay_connect(r, ok, FALSE)
        b == IF r.is_connected \/ c.exc # "none" THEN c ELSE SocketRelay_run_background(c)
        m == IF b.exc # "none" THEN b
             ELSE SocketRelay_send_bytes(b, type, size, "packed")
    IN  IF m.exc # "none" THEN m
        ELSE [SocketRelay_send_bytes(m, "INIT_COMPLETE", 0, "empty") EXCEPT !.initialized = TRUE]

\* MatchManager.start_match(config, wait_for_start) up to the wait, with
\* the server process already there: connect and start the read thread if
\* the relay is not connected, send the start frame (of the given type,
\* with a packed body of the given size), send InitComplete the first time.
\* An exception ends the call where it is raised.
MatchManager_start_match(r, ok, type, size) ==
    LET c == IF r.is_connected THEN r ELSE SocketRelay_connect(r, ok, FALSE)
        b == IF r.is_connected \/ c.exc # "none" THEN c ELSE SocketRelay_run_background(c)
        m == IF b.exc # "none" THEN b
             ELSE SocketRelay_send_bytes(b, type, size, "packed")
    IN  IF m.exc # "none" \/ m.initialized THEN m
        ELSE [SocketRelay_send_bytes(m, "INIT_COMPLETE", 0, "empty") EXCEPT !.initialized = TRUE]

\* the caller's thread calls start_match; with wait_for_start it goes on
\* to wait_for_first_packet
StartMatchCall(type, size, wait_for_start) ==
    /\ relay.main = "idle"
    /\ FreeThreads(relay) # {}
    /\ relay.nsent < MaxSends
    /\ \E ok \in BOOLEAN :
        LET res == MatchManager_start_match(relay, ok, type, size)
        IN  relay' = [res EXCEPT
                !.exc = "none",
                !.nsent = @ + 1,
                !.fresh = FALSE,
                !.main = IF res.exc = "none" /\ wait_for_start THEN "wait" ELSE "idle",
                !.lastStart = [called |-> TRUE, exc |-> res.exc,
                               big |-> size > MAX_SIZE_2_BYTES,
                               first |-> ~relay.initialized],
                !.initBare = @ \/ (res.initialized /\ ~relay.initialized
                                     /\ size > MAX_SIZE_2_BYTES)]
    /\ UNCHANGED <<loopVars, disp, codec, supVars>>

\* start_match(path, wait_for_start=False)
StartMatch == StartMatchCall("START_COMMAND", 1, FALSE)

\* MatchManager.wait_for_first_packet: the loop is left when the latest
\* packet is there and its match phase is neither Inactive nor Ended
WaitForFirstPacket ==
    /\ relay.main = "wait"
    /\ relay.packet = "active"
    /\ relay' = [relay EXCEPT !.main = "idle"]
    /\ UNCHANGED <<loopVars, disp, codec, supVars>>

\* a client that connects, runs the read loop in the background or in its
\* own thread, starts matches and disconnects
ThreadsNext ==
    \/ Connect
    \/ RunBackground
    \/ RunForeground
    \/ StartMatch
    \/ \E t \in Threads : ThreadEnter(t)
    \/ \E e \in Executors : SetRunning(e)
    \/ \E e \in Executors : LoopTest(e)
    \/ \E e \in Executors : ReadReturn(e)
    \/ \E e \in Executors : LoopExit(e)
    \/ Disconnect
    \/ DisconnectPoll
    \/ DisconnectForce
    \/ DisconnectFinish

SpecThreads == RelayInit /\ [][ThreadsNext]_vars

\* ------------------------------------------------------------------------
\* A MatchManager and its user: the user may call connect and
\* run(background_thread=True) on the manager's relay, and calls
\* start_match with a path or a configuration, with or without waiting for
\* the match to start; the read loop delivers GamePackets to
\* _packet_reporter.
\* ------------------------------------------------------------------------
MatchStart ==
    \E type \in StartFrames, size \in BodySizes, wait_for_start \in BOOLEAN :
        StartMatchCall(type, size, wait_for_start)

MatchRead(e) == \E eff \in PacketEffects : ReadFrame(e, eff)

MatchNext ==
    \/ Connect
    \/ RunBackground
    \/ MatchStart
    \/ WaitForFirstPacket
    \/ \E t \in Threads : ThreadEnter(t)
    \/ \E t \in Threads : SetRunning(t)
    \/ \E t \in Threads : LoopTest(t)
    \/ \E t \in Threads : MatchRead(t)
    \/ \E t \in Threads : LoopExit(t)

SpecMatch == RelayInit /\ [][MatchNext]_vars

\* ------------------------------------------------------------------------
\* MatchManager.shut_down
\* ------------------------------------------------------------------------
\* Variant of the escalation that starts to kill one iteration late
shut_down_force_Late(sleeps) ==
    IF sleeps = 1 THEN "terminate"
    ELSE IF sleeps = 4 \/ sleeps = 7 THEN "terminate"
    ELSE IF sleeps > 10 /\ sleeps % 3 = 1 THEN "kill"
    ELSE "none"

\* the if/elif chain under `if use_force_if_necessary`: what is called on
\* the process in the iteration in which the counter has the value sleeps
shut_down_force(sleeps) ==
    IF sleeps = 1 THEN "terminate"
    ELSE IF sleeps = 4 \/ sleeps = 7 THEN "terminate"
    ELSE IF sleeps >= 10 /\ sleeps % 3 = 1 THEN "kill"
    ELSE "none"

\* what the write of the StopCommand frame can do: succeed, fail with a
\* broken pipe, fail with another OSError, or fail the assertion of
\* send_bytes because the relay is not connected
StopOutcomes == {"sent", "BrokenPipeError", "OSError", "AssertionError"}

ShutInit ==
    /\ LoopIdle
    /\ disp = InitDisp
    /\ relay = InitRelay
    /\ codec = InitCodec
    /\ gate = InitGate
    /\ fill = InitFill
    /\ rend = InitRend
    /\ shut \in {[InitShut EXCEPT !.proc = p, !.alive = a, !.force = f] :
                    p \in BOOLEAN, a \in BOOLEAN, f \in BOOLEAN}

\* shut_down up to the wait loop: stop_match(shutdown_server=True) and the
\* except clause
ShutDownStop ==
    /\ shut.pc = "call"
    /\ \E out \in StopOutcomes :
        shut' = CASE out = "sent" -> [shut EXCEPT !.pc = "test"]
                  [] out = "BrokenPipeError" ->
                        IF shut.alive
                        THEN [shut EXCEPT !.pre = TRUE, !.pc = "test"]
                        ELSE [shut EXCEPT !.pc = "returned"]
                  [] OTHER -> [shut EXCEPT !.pc = "raised", !.exc = out]
    /\ UNCHANGED <<loopVars, disp, relay, codec, gate, fill, rend>>

\* while self.rlbot_server_process is not None: sleeps += 1
ShutLoopTest ==
    /\ shut.pc = "test"
    /\ shut.proc => shut.sleeps < MaxSleeps
    /\ shut' = IF shut.proc
               THEN [shut EXCEPT !.sleeps = @ + 1, !.pc = "sleep"]
               ELSE [shut EXCEPT !.pc = "returned"]
    /\ UNCHANGED <<loopVars, disp, relay, codec, gate, fill, rend>>

\* the rest of the loop body: sleep(1), look for the process, and use
\* force on it when it is still there
ShutPoll ==
    /\ shut.pc = "sleep"
    /\ LET found == shut.alive
           act == IF found /\ shut.force THEN shut_down_force(shut.sleeps) ELSE "none"
       IN  shut' = [shut EXCEPT
                !.proc = found,
                !.hits = IF found THEN @ + 1 ELSE @,
                !.terms = IF act = "terminate" THEN @ \cup {shut.sleeps} ELSE @,
                !.kills = IF act = "kill" THEN @ \cup {shut.sleeps} ELSE @,
                !.pc = "test"]
    /\ UNCHANGED <<loopVars, disp, relay, codec, gate, fill, rend>>

\* the server process exits: on the StopCommand, on a terminate or kill,
\* or on its own
ServerExit ==
    /\ shut.pc \in {"call", "test", "sleep"}
    /\ shut.alive
    /\ shut' = [shut EXCEPT !.alive = FALSE]
    /\ UNCHANGED <<loopVars, disp, relay, codec, gate, fill, rend>>

ShutNext ==
    \/ ShutDownStop
    \/ ShutLoopTest
    \/ ShutPoll
    \/ ServerExit

SpecShutdown == ShutInit /\ [][ShutNext]_vars

\* ------------------------------------------------------------------------
\* gateway: the port for the server and its launch
\* ------------------------------------------------------------------------
\* sock.bind(("127.0.0.1", port)) succeeds
is_port_accessible(g, port) ==
    IF port \in PortSamples THEN port \notin g.busy ELSE ~g.rest

\* the port is tested by the loop and passes
Usable(g, port) == port # RLBOT_SOCKETS_PORT /\ is_port_accessible(g, port)

\* find_usable_port_for_game: the port of a running Rocket League, or else
\* the first port of the range, in order, that is not the sockets port and
\* can be bound, or else PermissionError
find_usable_port_for_game(g) ==
    IF g.rl # 0
    THEN [port |-> g.rl, exc |-> "none"]
    ELSE IF \E p \in ScanPorts : Usable(g, p)
    THEN [port |-> CHOOSE p \in ScanPorts :
                      /\ Usable(g, p)
                      /\ \A q \in IDEAL_RLBOT_PORT..(p - 1) : ~Usable(g, q),
          exc |-> "none"]
    ELSE [port |-> 0, exc |-> "PermissionError"]

\* gateway.launch: the checks of the executable, the choice of the port
\* (its exception is logged and the default port is kept), the spawn
launch(g) ==
    IF g.exe = "missing"
    THEN [g EXCEPT !.pc = "raised", !.exc = "FileNotFoundError"]
    ELSE IF g.exe = "noexec"
    THEN [g EXCEPT !.pc = "raised", !.exc = "PermissionError"]
    ELSE LET f == find_usable_port_for_game(g)
         IN  [g EXCEPT !.pc = "spawned",
                       !.port = IF f.exc = "none" THEN f.port ELSE DEFAULT_RLBOT_PORT,
                       !.logged = (f.exc # "none")]

GateInit ==
    /\ LoopIdle
    /\ disp = InitDisp
    /\ relay = InitRelay
    /\ codec = InitCodec
    /\ shut = InitShut
    /\ fill = InitFill
    /\ rend = InitRend
    /\ gate \in {[InitGate EXCEPT !.exe = e, !.rl = r, !.busy = b, !.rest = x] :
                    e \in {"ok", "missing", "noexec"},
                    r \in {0, IDEAL_RLBOT_PORT + 2},
                    b \in SUBSET PortSamples,
                    x \in BOOLEAN}

\* MatchManager.ensure_server_started finds no server process and launches one
Launch ==
    /\ gate.pc = "launch"
    /\ gate' = launch(gate)
    /\ UNCHANGED <<loopVars, disp, relay, codec, shut, fill, rend>>

GateNext == Launch

SpecGateway == GateInit /\ [][GateNext]_vars

\* ------------------------------------------------------------------------
\* fill_desired_game_state
\* ------------------------------------------------------------------------
\* max(d.keys())
MaxKey(d) == CHOOSE k \in DOMAIN d : \A j \in DOMAIN d : j <= k

\* Variant that computes max_entry once, over the keys of both dicts
fill_desired_game_state_SharedMax(balls, cars) ==
    LET keys == DOMAIN balls \cup DOMAIN cars
        max_entry == CHOOSE k \in keys : \A j \in keys : j <= k
    IN  [ball_states |->
            IF DOMAIN balls # {}
            THEN [i \in 1..(max_entry + 1) |->
                    IF (i - 1) \in DOMAIN balls THEN balls[i - 1] ELSE "default"]
            ELSE <<>>,
         car_states |->
            IF DOMAIN cars # {}
            THEN [i \in 1..(max_entry + 1) |->
                    IF (i - 1) \in DOMAIN cars THEN cars[i - 1] ELSE "default"]
            ELSE <<>>]

\* the two `if` blocks: [d.get(i, default) for i in range(max_entry + 1)];
\* element i of the Python list is element i + 1 of the sequence
fill_desired_game_state(balls, cars) ==
    [ball_states |->
        IF DOMAIN balls # {}
        THEN LET max_entry == MaxKey(balls)
             IN  [i \in 1..(max_entry + 1) |->
                    IF (i - 1) \in DOMAIN balls THEN balls[i - 1] ELSE "default"]
        ELSE <<>>,
     car_states |->
        IF DOMAIN cars # {}
        THEN LET max_entry == MaxKey(cars)
             IN  [i \in 1..(max_entry + 1) |->
                    IF (i - 1) \in DOMAIN cars THEN cars[i - 1] ELSE "default"]
        ELSE <<>>]

FillInit ==
    /\ LoopIdle
    /\ disp = InitDisp
    /\ relay = InitRelay
    /\ codec = InitCodec
    /\ shut = InitShut
    /\ gate = InitGate
    /\ rend = InitRend
    /\ fill \in {[InitFill EXCEPT !.balls = b, !.cars = c] : b \in Dicts, c \in Dicts}

Fill ==
    /\ ~fill.done
    /\ LET g == fill_desired_game_state(fill.balls, fill.cars)
       IN  fill' = [fill EXCEPT !.done = TRUE,
                                !.ball_states = g.ball_states,
                                !.car_states = g.car_states]
    /\ UNCHANGED <<loopVars, disp, relay, codec, shut, gate, rend>>

FillNext == Fill

SpecFill == FillInit /\ [][FillNext]_vars

\* ------------------------------------------------------------------------
\* Renderer: begin_rendering, draw, end_rendering
\* ------------------------------------------------------------------------
Renderer_get_group_id(r, group_id) == r.hash[group_id]

Renderer_is_rendering(r, i) == r.group_id[i] # NoGroup

\* history: object i makes the call op
Called(r, i, op) ==
    [r EXCEPT !.ncalls = @ + 1, !.last = [op |-> op, by |-> i, exc |-> "none"]]

Renderer_begin_rendering(r, i, group_id) ==
    LET c == Called(r, i, "begin")
    IN  IF Renderer_is_rendering(c, i)
        THEN [c EXCEPT !.rejected = @ \cup {"begin"}]
        ELSE [c EXCEPT !.group_id[i] = Renderer_get_group_id(c, group_id),
                       !.used_group_ids = @ \cup {Renderer_get_group_id(c, group_id)},
                       !.since[i] = <<>>]

\* Variant of draw without the is_rendering test
Renderer_draw_NoGuard(r, i, big) ==
    LET c == Called(r, i, "draw")
        render == [n |-> c.ndraws + 1, big |-> big]
    IN  [c EXCEPT !.ndraws = @ + 1,
                  !.current_renders = Append(@, render),
                  !.since[i] = Append(@, render)]

Renderer_draw(r, i, big) ==
    LET c == Called(r, i, "draw")
        render == [n |-> c.ndraws + 1, big |-> big]
    IN  IF ~Renderer_is_rendering(c, i)
        THEN [c EXCEPT !.ndraws = @ + 1, !.rejected = @ \cup {"draw"}]
        ELSE [c EXCEPT !.ndraws = @ + 1,
                       !.current_renders = Append(@, render),
                       !.since[i] = Append(@, render)]

\* SocketRelay.send_render_group -> send_bytes: the assertion, the size
\* test (the frame is logged and dropped), the write
send_render_group(r, renders, id) ==
    IF ~r.connected
    THEN [r EXCEPT !.last.exc = "AssertionError"]
    ELSE IF \E k \in DOMAIN renders : renders[k].big
    THEN r
    ELSE [r EXCEPT !.groups = Append(@, [renders |-> renders, id |-> id])]

Renderer_end_rendering(r, i) ==
    LET c == Called(r, i, "end")
    IN  IF c.group_id[i] = NoGroup
        THEN [c EXCEPT !.rejected = @ \cup {"end"}]
        ELSE LET g == send_render_group(c, c.current_renders, c.group_id[i])
             IN  IF g.last.exc # "none"
                 THEN g
                 ELSE [g EXCEPT !.current_renders = <<>>,
                                !.group_id[i] = NoGroup]

RendInit ==
    /\ LoopIdle
    /\ disp = InitDisp
    /\ relay = InitRelay
    /\ codec = InitCodec
    /\ shut = InitShut
    /\ gate = InitGate
    /\ fill = InitFill
    /\ rend \in {[InitRend EXCEPT !.hash = h, !.connected = c] :
                    h \in [GroupNames -> HashSamples], c \in BOOLEAN}

BeginRendering(i, group_id) ==
    /\ rend.ncalls < MaxRenderCalls
    /\ rend' = Renderer_begin_rendering(rend, i, group_id)
    /\ UNCHANGED <<loopVars, disp, relay, codec, shut, gate, fill>>

Draw(i, big) ==
    /\ rend.ncalls < MaxRenderCalls
    /\ rend' = Renderer_draw(rend, i, big)
    /\ UNCHANGED <<loopVars, disp, relay, codec, shut, gate, fill>>

EndRendering(i) ==
    /\ rend.ncalls < MaxRenderCalls
    /\ rend' = Renderer_end_rendering(rend, i)
    /\ UNCHANGED <<loopVars, disp, relay, codec, shut, gate, fill>>

RendNext ==
    \/ \E i \in Renderers, g \in GroupNames : BeginRendering(i, g)
    \/ \E i \in Renderers, big \in BOOLEAN : Draw(i, big)
    \/ \E i \in Renderers : EndRendering(i)

SpecRender == RendInit /\ [][RendNext]_vars

\* ------------------------------------------------------------------------
\* Helpers for the properties
\* ------------------------------------------------------------------------
Range(q) == {q[i] : i \in 1..Len(q)}

Count(q, t) == Cardinality({i \in 1..Len(q) : q[i].type = t})

Last(q) == q[Len(q)]

Prerequisites == {"MATCH_CONFIGURATION", "FIELD_INFO", "CONTROLLABLE_TEAM_INFO"}

\* the user's per-packet callback is invoked in this step
UserCalled == hist'.lastUser # hist.lastUser

\* _packet_processor is entered in this step
ProcessorEntered == hist'.lastProc # hist.lastProc

\* the user's initialize raised
InitFailed == hist.initCalls > hist.initReturns

\* ------------------------------------------------------------------------
\* C1: the user's per-packet callback (get_output / get_outputs /
\* handle_packet) is never invoked before the user's initialize has
\* returned.  Stated on states: once the callback has been invoked,
\* initialize has returned (initReturns never decreases, so a state that
\* violates this is a state right after an early invocation).
\* ------------------------------------------------------------------------
C1_NoPacketCallbackBeforeInitialize ==
    hist.lastUser # 0 => hist.initReturns >= 1

\* ------------------------------------------------------------------------
\* C2: initialize is invoked at most once, InitComplete is sent at most
\* once, and InitComplete is sent only after initialize has returned
\* normally, also when the prerequisite frames are repeated.
\* ------------------------------------------------------------------------
C2_InitializeAndInitCompleteAtMostOnce ==
    /\ hist.initCalls <= 1
    /\ Count(outbox, "INIT_COMPLETE") <= 1
    /\ Count(outbox, "INIT_COMPLETE") >= 1 => hist.initReturns >= 1

\* a prerequisite frame was dispatched to an agent that is already initialized
C2_Witness ==
    /\ agent.initialized
    /\ hist.lastResult = "MORE_MSGS_QUEUED"
    /\ Range(hist.lastCalls) \cap {HandlerName(t) : t \in Prerequisites} # {}
    /\ "initialize" \notin Range(hist.lastCalls)

\* ------------------------------------------------------------------------
\* C3: for a Bot or Hivemind, initialize is not invoked until
\* MatchConfiguration, FieldInfo and ControllableTeamInfo have all been
\* received, in whatever order, and it is invoked within the dispatch of the
\* one that arrives last: in every state between two reads, initialize has
\* been invoked exactly if the three kinds have been delivered.
\* ------------------------------------------------------------------------
C3_InitializeWhenLastPrerequisiteArrives ==
    kind \in {"Bot", "Hivemind"} =>
        (hist.initCalls >= 1 <=> Prerequisites \subseteq hist.got)

\* initialize ran inside the dispatch of a ControllableTeamInfo that came last
C3_Witness ==
    /\ kind \in {"Bot", "Hivemind"}
    /\ "handle_controllable_team_info" \in Range(hist.lastCalls)
    /\ "initialize" \in Range(hist.lastCalls)
    /\ hist.nRead >= 3

\* ------------------------------------------------------------------------
\* C4: whenever the loop passes a GamePacket to user logic, it is the most
\* recently received GamePacket; a superseded packet is never passed on.
\* ------------------------------------------------------------------------
C4_UserSeesNewestPacket ==
    [][UserCalled => /\ hist'.lastUser = hist.lastRx
                     /\ hist'.lastUser > hist.lastSuperseded]_vars

\* user logic ran on a packet that had superseded an unprocessed one
C4_Witness ==
    /\ hist.lastSuperseded # 0
    /\ hist.lastUser > hist.lastSuperseded

\* ------------------------------------------------------------------------
\* C5: every message read before GamePacket B has been dispatched to its
\* handlers before user logic is invoked with B or a newer packet; a
\* message is dispatched inside the call that read it: while the loop is
\* alive every frame read has been dispatched.
\* ------------------------------------------------------------------------
C5_MessagesDispatchedBeforePacketConsumed ==
    /\ [](LoopAlive => hist.nDispatched = hist.nRead)
    /\ [][UserCalled => hist.nDispatched = hist.nRead]_vars

\* user logic ran on the last frame read, a packet, after a MatchComm had
\* been read and handled
C5_Witness ==
    /\ kind \in AgentKinds
    /\ "MATCH_COMMUNICATION" \in hist.got
    /\ hist.lastUser = hist.nRead
    /\ hist.lastUser >= 2


C8_PacketCallbackExceptionContained ==
    [][(ProcessorEntered /\ hist'.lastRaised = hist'.lastProc) =>
            /\ pc' = "poll"
            /\ outbox' = outbox
            /\ agent'.latest_packet = NoPacket]_vars

\* after a callback that raised, a later packet was passed to user logic
C8_Witness ==
    /\ hist.lastRaised # 0
    /\ hist.lastUser > hist.lastRaised

\* ------------------------------------------------------------------------
\* C9: if the user's initialize raises, no InitComplete is sent, the agent
\* is never marked initialized, the loop is left, and neither the
\* per-packet callback nor handle_match_comm is invoked afterwards (no
\* further frame is read).
\* ------------------------------------------------------------------------
C9_InitializeFailureIsFatal ==
    /\ [](InitFailed =>
            /\ ~agent.initialized
            /\ Count(outbox, "INIT_COMPLETE") = 0
            /\ pc = "done")
    /\ [][InitFailed => (~UserCalled /\ hist'.nRead = hist.nRead)]_vars

\* initialize raised while a packet was pending
C9_Witness ==
    /\ InitFailed
    /\ hist.lastExc = "SystemExit"
    /\ agent.latest_packet # NoPacket

\* ------------------------------------------------------------------------
\* C10: handle_incoming_messages returns Terminated, NoMsg or MoreQueued
\* and never propagates an exception; a short read or EOF, another I/O
\* failure, an unknown type and a body-decode failure each give Terminated,
\* after which SocketRelay.run has left its loop with _running false.
\* ------------------------------------------------------------------------
C10_HandleIncomingNeverRaises ==
    /\ hist.lastResult \in {None, "TERMINATED", "NO_INCOMING_MSGS", "MORE_MSGS_QUEUED"}
    /\ pc # "raised"
    /\ hist.lastExc \in {"EOFError", "OSError", "ValueError", "InvalidFlatbuffer"}
          => hist.lastResult = "TERMINATED"
    /\ (kind = "MatchManager" /\ hist.lastResult = "TERMINATED")
          => (pc = "done" /\ ~running)

\* SocketRelay.run ended on a stream that ended early
C10_Witness ==
    /\ kind = "MatchManager"
    /\ hist.lastExc = "EOFError"
    /\ pc = "done"
    /\ ~running

\* ------------------------------------------------------------------------
\* C11: when a frame of kind None is read, the raw handlers are invoked
\* with it and no typed handler is, handle_incoming_messages returns
\* Terminated and the loop is left, so that no further frame is read; and
\* run() of a Bot, Hivemind or Script has called retire exactly once when
\* it has ended (on Terminated, on a failed connect, or on an error out of
\* the loop) and not at all before.
\* ------------------------------------------------------------------------
C11_NoneFrameTerminatesAndRetiresOnce ==
    /\ [](hist.lastNone =>
            /\ hist.lastResult = "TERMINATED"
            /\ Range(hist.lastCalls) \subseteq {"raw"}
            /\ (hist.lastExc = "none" => Len(hist.lastCalls) = rawHandlers)
            /\ pc = "done")
    /\ [][hist.lastNone => hist'.nRead = hist.nRead]_vars
    /\ [](kind \in AgentKinds => hist.nRetire = (IF pc \in RunEnded THEN 1 ELSE 0))

\* an agent that had handled other frames read a None frame, the raw
\* handler saw it, and run() retired
C11_Witness ==
    /\ kind \in AgentKinds
    /\ hist.lastNone
    /\ hist.lastCalls = [i \in 1..rawHandlers |-> "raw"]
    /\ hist.nRead >= 2
    /\ hist.nRetire = 1

\* ------------------------------------------------------------------------
\* C12: within one call of handle_incoming_message every raw handler is
\* invoked before any kind-specific handler, only the raw list and the
\* list of the message's kind are served, and the handlers of each list
\* are invoked in the order in which they were registered (none is
\* skipped unless an earlier one raised).
\* ------------------------------------------------------------------------
C12_RawFirstInRegistrationOrder ==
    [][disp'.lists = disp.lists =>
        LET c == disp'.calls
            raw == disp.lists["raw_handlers"]
        IN  /\ \A j \in 1..Len(c) :
                  /\ c[j].list \in {"raw_handlers", ListOf(disp'.msg)}
                  /\ c[j].list # "raw_handlers" =>
                        /\ j > Len(raw)
                        /\ \A i \in 1..Len(raw) : c[i] = raw[i]
            /\ \A i, j \in 1..Len(c) :
                  (i < j /\ c[i].list = c[j].list) => c[i].n < c[j].n
            /\ (~disp'.raised /\ ListOf(disp'.msg) # None) =>
                  Len(c) = Len(raw) + Len(disp.lists[ListOf(disp'.msg)])
    ]_vars

\* a dispatch served two raw handlers and then a typed one
C12_Witness ==
    /\ Len(disp.calls) = 3
    /\ disp.calls[1].list = "raw_handlers"
    /\ disp.calls[2].list = "raw_handlers"
    /\ disp.calls[3].list \in TypedLists
    /\ disp.calls[3].n = 1

\* ------------------------------------------------------------------------
\* C20: a handler registered through one SocketRelay instance is invoked
\* only for messages received by that instance.
\* ------------------------------------------------------------------------
C20_HandlersInvokedOnlyByOwnInstance ==
    \A i \in 1..Len(disp.calls) : disp.calls[i].owner = disp.rx

\* ------------------------------------------------------------------------
\* C13: on every successful connect exactly one ConnectionSettings frame
\* is written, and it is the first frame the client writes on the
\* connection: no frame precedes it, not even one sent from an on_connect
\* handler.
\* ------------------------------------------------------------------------
C13_ConnectionSettingsFirst ==
    /\ Count(relay.wire, "CONNECTION_SETTINGS") = relay.nconn
    /\ relay.wire # <<>> => relay.wire[1].type = "CONNECTION_SETTINGS"

\* ------------------------------------------------------------------------
\* C14: bytes are written only while the relay is connected, and a send
\* method called while it is not (before a successful connect, after a
\* completed disconnect) fails with an assertion error and writes nothing.
\* ------------------------------------------------------------------------
C14_WritesOnlyWhileConnected ==
    /\ [][relay'.wire # relay.wire => relay'.is_connected]_vars
    /\ []((relay.lastSend.called /\ ~relay.lastSend.conn) =>
            /\ relay.lastSend.exc = "AssertionError"
            /\ ~relay.lastSend.wrote)

\* a send method was called after a disconnect had completed, and failed
C14_Witness ==
    /\ relay.disc = "returned"
    /\ relay.lastSend.called
    /\ ~relay.lastSend.conn
    /\ relay.lastSend.exc = "AssertionError"
    /\ relay.nsent >= 1

\* ------------------------------------------------------------------------
\* C15: on a connected relay a send with a body longer than 65535 bytes
\* writes nothing, raises nothing and changes nothing of the relay, and a
\* send with a body of at most 65535 bytes is written, also after a
\* rejected one.
\* ------------------------------------------------------------------------
C15_OversizedSendRejected ==
    (relay.lastSend.called /\ relay.lastSend.conn) =>
        /\ relay.lastSend.exc = "none"
        /\ relay.lastSend.big => (~relay.lastSend.wrote /\ relay.lastSend.kept)
        /\ ~relay.lastSend.big => relay.lastSend.wrote

\* nothing has been written after ConnectionSettings although a send of
\* 65536 bytes was called
C15_Witness ==
    /\ relay.lastSend.called
    /\ relay.lastSend.conn
    /\ relay.lastSend.big
    /\ relay.is_connected
    /\ Len(relay.wire) = 1

\* ------------------------------------------------------------------------
\* C18: disconnect() on a connected relay writes exactly one frame, of
\* kind None with the body 0x01, polls _running every 100 ms for at most
\* 5 s, forces _running to false if the loop has not stopped, and returns
\* with is_connected false (it does not raise).
\* ------------------------------------------------------------------------
PollMs == 100

WaitMs == 5000

C18_DisconnectSendsNoneWaitsFiveSeconds ==
    /\ relay.polls * PollMs <= WaitMs
    /\ relay.disc # "asserted"
    /\ relay.disc \in {"active", "returned"} =>
          /\ Count(relay.wire, "NONE") = 1
          /\ Last(relay.wire) = [type |-> "NONE", body |-> "0x01"]
    /\ relay.disc = "returned" => ~relay.is_connected

\* ------------------------------------------------------------------------
\* C19: at most one thread is inside the read-and-dispatch loop of
\* SocketRelay.run at any time.
\* ------------------------------------------------------------------------
C19_AtMostOneLoopThread ==
    Cardinality({e \in Executors : PcOf(relay, e) \in {"loop", "read"}}) <= 1

\* ------------------------------------------------------------------------
\* C16: send_bytes writes the kind and then the length of the body, each
\* as two big-endian bytes, and then the body; read_message on these
\* bytes yields the same kind and the same body, for every kind in 0..15
\* and also for a body of length zero; two bytes carry every length up to
\* 65535.
\* ------------------------------------------------------------------------
HeaderSamples == {0, 1, 255, 256, 257, 65534, 65535}

C16_FrameRoundTrip ==
    /\ [][codec'.nsend # codec.nsend =>
            LET f == Last(codec'.sent)
                w == codec'.wire
                at == Len(codec.wire)
                len == Len(f.data)
            IN  /\ Len(w) = at + 4 + len
                /\ w[at + 1] * 256 + w[at + 2] = f.type
                /\ w[at + 3] * 256 + w[at + 4] = len
                /\ SubSeq(w, at + 5, at + 4 + len) = f.data]_vars
    /\ [][codec'.nread # codec.nread => codec'.last = Head(codec.sent)]_vars
    /\ [](\A v \in HeaderSamples :
             /\ int_from_bytes(int_to_bytes(v)) = v
             /\ int_to_bytes(v) = <<v \div 256, v % 256>>)

\* a frame of kind 15 with an empty body was read back
C16_Witness ==
    /\ codec.nread = 1
    /\ codec.last = [type |-> 15, data |-> <<>>]
    /\ codec.phase = "type"

RECURSIVE StreamOf(_)
StreamOf(frames) ==
    IF frames = <<>> THEN <<>>
    ELSE message_bytes(Head(frames).data, Head(frames).type) \o StreamOf(Tail(frames))

\* ------------------------------------------------------------------------
\* C17: however the transport cuts header and body into chunks, down to
\* one byte per receive call, a blocking read_message returns the frame
\* as it was written and has consumed exactly 4 + length bytes: what is
\* left in the stream starts at the header of the next frame.
\* ------------------------------------------------------------------------
C17_ChunkedReadReturnsFrame ==
    [][codec'.nread # codec.nread =>
        LET f == Head(codec.sent)
        IN  /\ codec'.last.type = f.type
            /\ codec'.last.data = f.data
            /\ codec'.consumed = 4 + Len(f.data)
            /\ codec'.wire = StreamOf(Tail(codec.sent))]_vars

\* a frame with a body of two bytes was read one byte per receive call
\* while the next frame was waiting in the stream
C17_Witness ==
    /\ codec.nread = 1
    /\ Len(codec.last.data) = 2
    /\ codec.bytewise
    /\ codec.consumed = 6
    /\ codec.wire # <<>>
    /\ codec.pos = 0

\* ------------------------------------------------------------------------
\* C21: a Script whose agent id is not in the script list of the received
\* MatchConfiguration still proceeds: once a MatchConfiguration (listing the
\* script or not) and a FieldInfo have been handed to their handlers,
\* initialize has been called, and InitComplete has been sent unless
\* initialize raised.
\* ------------------------------------------------------------------------
C21_UnlistedScriptStillInitializes ==
    (/\ kind = "Script"
     /\ "MATCH_CONFIGURATION" \in hist.got
     /\ "FIELD_INFO" \in hist.got)
        => /\ hist.initCalls >= 1
           /\ (hist.initReturns >= 1 => Count(outbox, "INIT_COMPLETE") >= 1)

\* ------------------------------------------------------------------------
\* C22: a Bot sends exactly one PlayerInput, carrying the index assigned by
\* ControllableTeamInfo, for each packet on which get_output was invoked and
\* returned normally, and no PlayerInput otherwise; get_output is skipped
\* only for a packet whose player list does not include the bot's index.
\* ------------------------------------------------------------------------
C22_Frames ==
    kind = "Bot" =>
        /\ \A i \in 1..Len(outbox) :
              outbox[i].type = "PLAYER_INPUT" =>
                  /\ agent.has_player_mapping
                  /\ outbox[i].index >= 0
                  /\ outbox[i].seq <= hist.lastUser
                  /\ \A j \in 1..Len(outbox) :
                        (outbox[j].type = "PLAYER_INPUT" /\ outbox[j].seq = outbox[i].seq)
                            => j = i
        /\ (hist.lastUser # 0 /\ hist.lastRaised # hist.lastUser)
              => \E i \in 1..Len(outbox) :
                    outbox[i].type = "PLAYER_INPUT" /\ outbox[i].seq = hist.lastUser

C22_Skip ==
    (kind = "Bot" /\ ProcessorEntered /\ ~UserCalled) =>
        /\ agent.has_player_mapping
        /\ agent.latest_packet.players <= agent.index
        /\ outbox' = outbox

C22_OnePlayerInputPerProcessedPacket == []C22_Frames /\ [][C22_Skip]_vars

\* ------------------------------------------------------------------------
\* C29: the agent loop calls handle_incoming_messages with blocking=True
\* exactly when no packet is pending and with blocking=False exactly when
\* one is pending; _packet_processor is invoked only directly after a
\* non-blocking call returned NO_INCOMING_MSGS; a call that returns
\* NO_INCOMING_MSGS reads nothing and invokes no handler; the pending slot
\* is empty right after processing.
\* ------------------------------------------------------------------------
\* a step of the loop at the call of handle_incoming_messages
PollStep == kind \in AgentKinds /\ pc = "poll" /\ sent' = sent

C29_Always ==
    kind \in AgentKinds =>
        /\ pc = "process" =>
              /\ hist.lastResult = "NO_INCOMING_MSGS"
              /\ ~sock_blocking
              /\ agent.latest_packet # NoPacket
        /\ hist.lastResult = "NO_INCOMING_MSGS" =>
              /\ hist.lastCalls = <<>>
              /\ ~sock_blocking

C29_Step ==
    kind \in AgentKinds =>
        /\ PollStep => sock_blocking' = (agent.latest_packet = NoPacket)
        /\ (PollStep /\ hist'.lastResult = "NO_INCOMING_MSGS") =>
              /\ hist'.nRead = hist.nRead
              /\ hist'.nDispatched = hist.nDispatched
              /\ agent' = agent
              /\ outbox' = outbox
        /\ (pc' = "process" /\ pc # "process") => PollStep
        /\ ProcessorEntered => pc = "process"
        /\ (pc = "process" /\ pc' = "poll") => agent'.latest_packet = NoPacket

C29_BlockingIffNothingPending == []C29_Always /\ [][C29_Step]_vars

\* a packet has just been processed after a non-blocking poll found the
\* queue empty: the slot is empty and the next poll will block
C29_Witness ==
    /\ kind \in AgentKinds
    /\ pc = "poll"
    /\ hist.lastProc >= 1
    /\ hist.lastResult = "NO_INCOMING_MSGS"
    /\ ~sock_blocking
    /\ agent.latest_packet = NoPacket
    /\ hist.nRead >= 2

\* ------------------------------------------------------------------------
\* C30 (as claimed): every received GamePacket is eventually followed by an
\* invocation of the user's per-packet callback on that packet or on a newer
\* one, unless the loop has ended: a pending packet eventually leaves the
\* slot or the loop ends, it leaves the slot only by being passed to the
\* user's callback, and it is replaced only by a newer packet; the loop
\* never polls without blocking while the slot is empty.
\* ------------------------------------------------------------------------
Pending == kind \in AgentKinds /\ agent.latest_packet # NoPacket

PendingLeaves == Pending ~> (agent.latest_packet = NoPacket \/ pc \in RunEnded)

OnlyNewerReplaces ==
    (Pending /\ agent'.latest_packet # NoPacket) =>
        agent'.latest_packet.seq >= agent.latest_packet.seq

NoBusyWait ==
    (PollStep /\ agent.latest_packet = NoPacket) => sock_blocking'

C23_ReadLoopRunsWhileWaiting ==
    relay.main = "wait" => \E t \in Threads : relay.th[t] # "none"

\* ------------------------------------------------------------------------
\* C24 (as claimed): across the start_match calls on one MatchManager,
\* InitComplete is sent exactly once, immediately after the start frame of
\* the first call; later calls send only the StartCommand or
\* MatchConfiguration frame.
\* ------------------------------------------------------------------------
\* a step in which start_match is called
StartMatchStep == relay'.nsent = relay.nsent + 1

\* the frames written in this step
Written == SubSeq(relay'.wire, Len(relay.wire) + 1, Len(relay'.wire))

LaterCallsSendOnlyStartFrame ==
    (StartMatchStep /\ relay.initialized) =>
        /\ Len(Written) <= 1
        /\ \A i \in 1..Len(Written) : Written[i].type \in StartFrames

C24_Original_InitCompleteOnceAfterStartFrame ==
    /\ [](/\ Count(relay.wire, "INIT_COMPLETE") <= 1
          /\ (relay.lastStart.called /\ relay.lastStart.exc = "none")
                => Count(relay.wire, "INIT_COMPLETE") = 1
          /\ \A i \in 1..Len(relay.wire) :
                relay.wire[i].type = "INIT_COMPLETE" =>
                    i > 1 /\ relay.wire[i - 1].type \in StartFrames)
    /\ [][LaterCallsSendOnlyStartFrame]_vars

\* C24 (amended): InitComplete is sent at most once, by the first
\* start_match call that gets as far as sending, directly after that call's
\* start frame, or with no start frame before it when the packed
\* configuration is longer than 65535 bytes and send_bytes drops it; once a
\* call has returned InitComplete has been sent; later calls send only the
\* StartCommand or MatchConfiguration frame.
C24_InitCompleteOnceAfterStartSend ==
    /\ [](/\ Count(relay.wire, "INIT_COMPLETE") <= 1
          /\ (relay.lastStart.called /\ relay.lastStart.exc = "none")
                => Count(relay.wire, "INIT_COMPLETE") = 1
          /\ relay.initialized <=> Count(relay.wire, "INIT_COMPLETE") = 1
          /\ \A i \in 1..Len(relay.wire) :
                relay.wire[i].type = "INIT_COMPLETE" =>
                    IF relay.initBare
                    THEN i > 1 /\ relay.wire[i - 1].type \notin StartFrames
                    ELSE i > 1 /\ relay.wire[i - 1].type \in StartFrames)
    /\ [][(StartMatchStep /\ ~relay.initialized /\ relay'.initialized) =>
              /\ Last(Written).type = "INIT_COMPLETE"
              /\ relay'.initBare = (relay'.lastStart.big)]_vars
    /\ [][LaterCallsSendOnlyStartFrame]_vars

\* two calls have returned: the first sent a MatchConfiguration frame and
\* InitComplete, the second only its start frame
C24_Witness ==
    /\ relay.nsent = 2
    /\ relay.lastStart.called
    /\ relay.lastStart.exc = "none"
    /\ ~relay.lastStart.first
    /\ ~relay.initBare
    /\ Count(relay.wire, "INIT_COMPLETE") = 1
    /\ Count(relay.wire, "MATCH_CONFIGURATION") >= 1
    /\ Last(relay.wire).type \in StartFrames

BindableFrom(from) ==
    {p \in PortSamples \cup {IDEAL_RLBOT_PORT + 4} :
        p >= from /\ is_port_accessible(gate, p)}

C26_LowestFreePortFromDefault ==
    (gate.pc = "spawned" /\ gate.rl = 0 /\ BindableFrom(RLBOT_SERVER_PORT) # {}) =>
        /\ gate.port \in BindableFrom(RLBOT_SERVER_PORT)
        /\ \A p \in BindableFrom(RLBOT_SERVER_PORT) : gate.port <= p

\* ------------------------------------------------------------------------
\* C27: if no port from the default upward and below 65536 can be bound on
\* loopback, launching the server fails with an error raised to the caller
\* and no server process is spawned.
\* ------------------------------------------------------------------------
C27_NoPortNoSpawn ==
    (gate.pc # "launch" /\ gate.rl = 0
        /\ \A p \in PortSamples \cup {IDEAL_RLBOT_PORT + 4} : ~is_port_accessible(gate, p))
        => gate.pc = "raised"

\* ------------------------------------------------------------------------
\* C28: for dicts with non-negative keys, fill_desired_game_state returns
\* for each dict a list of length max(key) + 1 whose entry i is the dict's
\* value at i when i is a key and the default state otherwise; an empty dict
\* gives an empty list; the ball list does not depend on the car dict, nor
\* the car list on the ball dict.
\* ------------------------------------------------------------------------
\* seq is the dense list of dict d
DenseOf(seq, d) ==
    /\ DOMAIN d = {} => seq = <<>>
    /\ DOMAIN d # {} =>
          /\ DOMAIN seq = 1..(MaxKey(d) + 1)
          /\ \A k \in DOMAIN d : k + 1 <= Len(seq)
          /\ \A i \in 0..MaxIndex :
                i + 1 \in DOMAIN seq =>
                    seq[i + 1] = (IF i \in DOMAIN d THEN d[i] ELSE "default")

C28_DenseListsFromSparseDicts ==
    fill.done =>
        /\ DenseOf(fill.ball_states, fill.balls)
        /\ DenseOf(fill.car_states, fill.cars)
        /\ Len(fill.ball_states) = Cardinality({i \in 0..MaxIndex : \E k \in DOMAIN fill.balls : i <= k})
        /\ Len(fill.car_states) = Cardinality({i \in 0..MaxIndex : \E k \in DOMAIN fill.cars : i <= k})

\* balls {2: set} and cars {0: set, 1: default}: a ball list of three with
\* two gaps filled, a car list of two
C28_Witness ==
    /\ fill.done
    /\ DOMAIN fill.balls = {2}
    /\ fill.ball_states = <<"default", "default", "set">>
    /\ DOMAIN fill.cars = {0, 1}
    /\ fill.car_states = <<"set", "default">>

\* ------------------------------------------------------------------------
\* C31: a non-blocking handle_incoming_messages call that finds only part
\* of a frame at hand loses no bytes: no byte taken from the stream is
\* dropped, and every message read_message returns is the oldest frame the
\* server wrote that has not been returned yet.
\* ------------------------------------------------------------------------
C31_PartialFrameLosesNoBytes ==
    /\ [](codec.dropped = 0)
    /\ [][codec'.nread # codec.nread =>
            /\ codec.sent # <<>>
            /\ codec'.last = Head(codec.sent)]_vars

\* ------------------------------------------------------------------------
\* C32: no exception raised while a packet is being processed propagates
\* out of the agent loop, whatever the order of the inbound messages: _run
\* is never left by an exception of _packet_processor, also not in a
\* Hivemind that gets a GamePacket before any ControllableTeamInfo.
\* ------------------------------------------------------------------------
C32_PacketProcessingNeverRaises == pc # "crashed"

\* ------------------------------------------------------------------------
\* C33: after any sequence of ControllableTeamInfo messages a Hivemind's
\* indices (and spawn_ids, filled by the same loop) list exactly the
\* controllables of the most recent ControllableTeamInfo it was handed,
\* without duplicates.
\* ------------------------------------------------------------------------
C33_IndicesAreLatestTeamInfo ==
    kind = "Hivemind" =>
        /\ agent.indices = hist.lastTeam
        /\ \A i, j \in DOMAIN agent.indices :
              agent.indices[i] = agent.indices[j] => i = j

\* ------------------------------------------------------------------------
\* C34: a Hivemind writes a PlayerInput frame only for indices it controls:
\* for an entry of the dict returned by get_outputs whose index is not
\* among the hive's indices no PlayerInput frame is written.
\* ------------------------------------------------------------------------
C34_PlayerInputOnlyForOwnIndices ==
    kind = "Hivemind" =>
        \A i \in 1..Len(outbox) :
            outbox[i].type = "PLAYER_INPUT" => outbox[i].index \in Range(agent.indices)

\* ------------------------------------------------------------------------
\* C35: each end_rendering that follows a begin_rendering of the same
\* renderer sends exactly one RenderGroup, which holds in call order exactly
\* the draws made since that begin_rendering and carries that group's id,
\* and leaves the renderer not rendering with an empty queue.  Stated for
\* the calls made on a connected relay with draws that fit into a frame.
\* ------------------------------------------------------------------------
\* this step is a call of op; by names the caller in the state after it
CallOf(op) == rend'.ncalls = rend.ncalls + 1 /\ rend'.last.op = op

Fits(renders) == \A k \in DOMAIN renders : ~renders[k].big

C35_EndRenderingSendsTheGroup ==
    [][\A i \in Renderers :
        (/\ CallOf("end")
         /\ rend'.last.by = i
         /\ rend.group_id[i] # NoGroup
         /\ rend.connected
         /\ Fits(rend.current_renders)) =>
            /\ rend'.groups = Append(rend.groups,
                                     [renders |-> rend.since[i], id |-> rend.group_id[i]])
            /\ rend'.group_id[i] = NoGroup
            /\ rend'.current_renders = <<>>]_vars

\* ------------------------------------------------------------------------
\* C36: misuse of the renderer is rejected without effect: a draw while not
\* rendering, an end_rendering without a begin_rendering before it and a
\* begin_rendering while already rendering each send nothing and leave the
\* group id of every renderer, the queued draws and the set of used group
\* ids as they were.
\* ------------------------------------------------------------------------
Misuse(i) ==
    /\ rend'.last.by = i
    /\ \/ CallOf("draw") /\ rend.group_id[i] = NoGroup
       \/ CallOf("end") /\ rend.group_id[i] = NoGroup
       \/ CallOf("begin") /\ rend.group_id[i] # NoGroup

C36_MisuseRejectedWithoutEffect ==
    [][\A i \in Renderers :
        Misuse(i) =>
            /\ rend'.groups = rend.groups
            /\ rend'.group_id = rend.group_id
            /\ rend'.current_renders = rend.current_renders
            /\ rend'.used_group_ids = rend.used_group_ids
            /\ rend'.last.exc = "none"]_vars

\* all three kinds of misuse have been made and refused: renderer 1 is in
\* a group, nothing is queued and nothing was sent
C36_Witness ==
    /\ rend.rejected = {"begin", "draw", "end"}
    /\ rend.group_id[1] # NoGroup
    /\ rend.group_id[2] = NoGroup
    /\ rend.used_group_ids = {rend.group_id[1]}
    /\ rend.current_renders = <<>>
    /\ rend.groups = <<>>

\* ------------------------------------------------------------------------
\* C37: if the relay's read loop has ended (the server sent a None frame,
\* or a read failed), a later start_match that gets as far as sending has
\* established a connection and a read loop: when it has sent the start
\* frame a thread is running, or about to run, the loop.
\* ------------------------------------------------------------------------
LivePositions == {"entry", "set", "loop", "read"}

LoopRuns(r) == \E t \in Threads : r.th[t] \in LivePositions

C37_StartMatchRestartsEndedLoop ==
    [][(/\ StartMatchStep
        /\ relay'.lastStart.exc = "none"
        /\ \E t \in Threads : relay.th[t] = "ended"
        /\ ~LoopRuns(relay)) => LoopRuns(relay')]_vars

\* ------------------------------------------------------------------------
\* C38: when start_match(config, wait_for_start=True) returns, the packet
\* that ended the wait was reported after the start frame of that call was
\* sent: a packet left from an earlier match does not end the wait.
\* ------------------------------------------------------------------------
C38_WaitEndsOnPacketOfThisMatch ==
    [][(relay.main = "wait" /\ relay'.main = "idle") => relay.fresh]_vars

\* ------------------------------------------------------------------------
\* C39: with use_force_if_necessary=False, shut_down calls neither
\* terminate nor kill on the server process on any path, the path on which
\* sending StopCommand fails with a broken pipe included.
\* ------------------------------------------------------------------------
C39_NoForceWithoutPermission ==
    ~shut.force => (~shut.pre /\ shut.terms = {} /\ shut.kills = {})

\* ------------------------------------------------------------------------
\* C40: whenever the agent loop writes a frame (PlayerInput while a packet
\* is processed, InitComplete or another frame from inside a handler), the
\* socket is in blocking mode at the time of the write.
\* ------------------------------------------------------------------------
C40_LoopWritesInBlockingMode ==
    [][(/\ kind \in AgentKinds
        /\ pc \in {"poll", "process"}
        /\ Len(outbox') > Len(outbox)) => sock_blocking']_vars

====
